---- MODULE Spec2Model ----
(***************************************************************************)
(* custom_grep: the single-file line scanner (searchInFile, regexSearch,   *)
(* regularSearch), the parallel search engine (parallelSearch), the file   *)
(* enumerator (collectFiles, collectFilesRecursive) and main, which parses *)
(* the command line, calls them and prints the matches.                    *)
(*                                                                         *)
(* Strings are sequences of one-character strings.  A file is the sequence *)
(* of its bytes; the filesystem maps a path to a file or to the errno the  *)
(* open fails with.  A directory tree is a node with its entries in        *)
(* iteration order; a path below the root is the sequence of the entry     *)
(* positions that lead to it.                                              *)
(***************************************************************************)
EXTENDS Integers, Sequences, FiniteSets, TLC

VARIABLES
    fs,             \* the filesystem: path -> file or the errno of a failed open
    hc,             \* std::thread::hardware_concurrency() of the host
    ignoreCase,     \* main: --ignore-case was given
    useRegex,       \* main: --regex was given
    query,          \* the query string
    all_files,      \* the file list handed to parallelSearch
    m_ignoreCase,   \* CustomGrep::m_ignoreCase
    m_regexSearch,  \* CustomGrep::m_regexSearch
    m_threadCount,  \* CustomGrep::m_threadCount
    pc,             \* where the calling thread is
    chunk_size,     \* parallelSearch: chunk_size
    thread_index,   \* parallelSearch: the launch loop's thread_index
    threads,        \* parallelSearch: the threads launched, with their captures
    local_results,  \* parallelSearch: one buffer per worker index
    join_index,     \* parallelSearch: position of the join loop
    merge_index,    \* parallelSearch: position of the merge loop
    all_results,    \* parallelSearch: the merged result
    finish_order,   \* worker indexes in the order their lambdas returned
    cerr,           \* what was written to std::cerr (stderr)
    cout,           \* what was written to std::cout
    exit_status,    \* how the process ended
    scan_pc,        \* searchInFile called directly: where the call is
    scan_path,      \* searchInFile: filePath
    ifs,            \* searchInFile: the bytes of the stream not yet read
    lineNumber,     \* regexSearch / regularSearch: lineNumber
    results,        \* searchInFile: results
    tree,           \* the directory tree under the path given to collectFiles
    root_links,     \* the symbolic links that path itself goes through
    collect_pc,     \* collectFiles: where the call is
    stack,          \* collectFilesRecursive: one frame per call in progress
    files,          \* collectFiles: files
    raised,         \* what() of the exception thrown in main's try block, "" when none
    argv            \* main: the argument vector, argv[0] first

vars == <<fs, hc, ignoreCase, useRegex, query, all_files, m_ignoreCase,
          m_regexSearch, m_threadCount, pc, chunk_size, thread_index, threads,
          local_results, join_index, merge_index, all_results, finish_order,
          cerr, cout, exit_status, scan_pc, scan_path, ifs, lineNumber, results,
          tree, root_links, collect_pc, stack, files, raised, argv>>

envVars   == <<fs, hc, ignoreCase, useRegex, query, all_files, tree, root_links,
               argv>>
objVars   == <<m_ignoreCase, m_regexSearch, m_threadCount>>
callVars  == <<chunk_size, thread_index, threads, local_results, join_index,
               merge_index, all_results, finish_order>>
scanVars  == <<scan_pc, scan_path, ifs, lineNumber, results>>
collectVars == <<collect_pc, stack, files, raised>>

\* ------------------------------------------------------------------ bounds
MaxLen == 3
MaxQueryLen == 2
MaxFiles == 3
MaxThreads == 3
MaxNodes == 3

\* ----------------------------------------------------------------- strings
LF == "\n"
CR == "\r"

FileAlphabet == {"a", "A", LF, CR}
QueryAlphabet == {"a", "A", "^", "$", "("}

StringsUpTo(alphabet, n) == UNION {[1..k -> alphabet] : k \in 0..n}

RECURSIVE FlattenSeq(_)
FlattenSeq(ss) ==
    IF ss = <<>> THEN <<>> ELSE Head(ss) \o FlattenSeq(Tail(ss))

\* std::tolower in the "C" locale, on the characters of the alphabets
tolower(c) == IF c = "A" THEN "a" ELSE c

\* lowercaseInPlace: std::transform with tolower over the whole string
lowercaseInPlace(s) == [i \in 1..Len(s) |-> tolower(s[i])]

\* find(q) == 0: the query is looked for at the start of the line only
FindAtStart(s, q) == Len(q) <= Len(s) /\ SubSeq(s, 1, Len(q)) = q

\* find that reports npos for an empty query
FindNeedsText(s, q) ==
    /\ q # <<>>
    /\ \E i \in 1..(Len(s) + 1) :
          /\ i + Len(q) - 1 <= Len(s)
          /\ SubSeq(s, i, i + Len(q) - 1) = q

\* std::string::find(q) != npos
Find(s, q) ==
    \E i \in 1..(Len(s) + 1) :
        /\ i + Len(q) - 1 <= Len(s)
        /\ SubSeq(s, i, i + Len(q) - 1) = q

\* ------------------------------------------------------------------- regex
\* std::regex(qry, ECMAScript [| icase]) on patterns over QueryAlphabet:
\* letters are literal atoms, ^ and $ are assertions, and an opening
\* parenthesis is never closed, so the constructor throws regex_error.
RegexValid(qry) == \A i \in 1..Len(qry) : qry[i] # "("

\* one atom of the pattern against the line at 1-based position pos
RECURSIVE RegexMatchFrom(_, _, _, _, _)
RegexMatchFrom(pat, k, line, pos, icase) ==
    IF k > Len(pat) THEN TRUE
    ELSE IF pat[k] = "^" THEN
        pos = 1 /\ RegexMatchFrom(pat, k + 1, line, pos, icase)
    ELSE IF pat[k] = "$" THEN
        pos = Len(line) + 1 /\ RegexMatchFrom(pat, k + 1, line, pos, icase)
    ELSE
        /\ pos <= Len(line)
        /\ IF icase THEN tolower(line[pos]) = tolower(pat[k])
                    ELSE line[pos] = pat[k]
        /\ RegexMatchFrom(pat, k + 1, line, pos + 1, icase)

\* std::regex_match(line, re): the pattern has to match the whole line
regex_match(line, pat, icase) ==
    RegexMatchFrom(pat \o <<"$">>, 1, line, 1, icase)

\* std::regex_search(line, re): the pattern is found anywhere in the line
regex_search(line, pat, icase) ==
    \E start \in 1..(Len(line) + 1) : RegexMatchFrom(pat, 1, line, start, icase)

\* ------------------------------------------------------------------ stream
\* std::getline(ifs, line) on the bytes still unread: fails when nothing is
\* left; otherwise takes the bytes up to the next LF (consumed, not stored)
\* or up to the end of the file.
FirstLF(s) ==
    IF \E i \in 1..Len(s) : s[i] = LF
    THEN CHOOSE i \in 1..Len(s) : s[i] = LF /\ \A j \in 1..(i - 1) : s[j] # LF
    ELSE 0

\* getline that fails on text the end of the file cuts short of a terminator
getlineNeedsTerminator(strm) ==
    IF strm = <<>> \/ FirstLF(strm) = 0
    THEN [ok |-> FALSE, line |-> <<>>, rest |-> <<>>]
    ELSE LET k == FirstLF(strm) IN
         [ok |-> TRUE, line |-> SubSeq(strm, 1, k - 1),
          rest |-> SubSeq(strm, k + 1, Len(strm))]

getline(strm) ==
    IF strm = <<>> THEN [ok |-> FALSE, line |-> <<>>, rest |-> <<>>]
    ELSE LET k == FirstLF(strm) IN
         IF k = 0 THEN [ok |-> TRUE, line |-> strm, rest |-> <<>>]
         ELSE [ok |-> TRUE, line |-> SubSeq(strm, 1, k - 1),
               rest |-> SubSeq(strm, k + 1, Len(strm))]

\* the line as getline delivers it, a trailing '\r' left in place
StripCRNone(line) == line

\* if (!line.empty() && line.back() == '\r') line.pop_back();
StripCR(line) ==
    IF line # <<>> /\ line[Len(line)] = CR
    THEN SubSeq(line, 1, Len(line) - 1)
    ELSE line

Match(path, line_number, line) ==
    [path |-> path, line_number |-> line_number, line |-> line]

\* the counter after one more line is read
NextLineNumber(n0) == n0 + 1

\* One iteration of the while loop of regexSearch.  st is the state of the
\* loop: the stream, the line counter, the results.
regexSearchLine(st, qry, filePath, icase) ==
    LET g    == getline(st.ifs)
        line == StripCR(g.line)
        n    == NextLineNumber(st.lineNumber)
    IN [ifs        |-> g.rest,
        lineNumber |-> n,
        results    |-> IF regex_search(line, qry, icase)
                       THEN Append(st.results, Match(filePath, n, line))
                       ELSE st.results]

\* regularSearch with ++lineNumber moved into the branch of a matching line
regularSearchLineCountsMatches(st, qry, filePath, icase) ==
    LET g    == getline(st.ifs)
        line == StripCR(g.line)
        hit  == IF icase
                THEN Find(lowercaseInPlace(line), lowercaseInPlace(qry))
                ELSE Find(line, qry)
        n    == IF hit THEN NextLineNumber(st.lineNumber) ELSE st.lineNumber
    IN [ifs        |-> g.rest,
        lineNumber |-> n,
        results    |-> IF hit
                       THEN Append(st.results, Match(filePath, n, line))
                       ELSE st.results]

\* regularSearch with only the line lowercased, the query taken as given
regularSearchLineQueryAsGiven(st, qry, filePath, icase) ==
    LET g    == getline(st.ifs)
        line == StripCR(g.line)
        n    == NextLineNumber(st.lineNumber)
        hit  == IF icase
                THEN Find(lowercaseInPlace(line), qry)
                ELSE Find(line, qry)
    IN [ifs        |-> g.rest,
        lineNumber |-> n,
        results    |-> IF hit
                       THEN Append(st.results, Match(filePath, n, line))
                       ELSE st.results]

\* One iteration of the while loop of regularSearch.
regularSearchLine(st, qry, filePath, icase) ==
    LET g    == getline(st.ifs)
        line == StripCR(g.line)
        n    == NextLineNumber(st.lineNumber)
        hit  == IF icase
                THEN Find(lowercaseInPlace(line), lowercaseInPlace(qry))
                ELSE Find(line, qry)
    IN [ifs        |-> g.rest,
        lineNumber |-> n,
        results    |-> IF hit
                       THEN Append(st.results, Match(filePath, n, line))
                       ELSE st.results]

SearchLine(st, qry, filePath, icase, regex) ==
    IF regex THEN regexSearchLine(st, qry, filePath, icase)
             ELSE regularSearchLine(st, qry, filePath, icase)

\* the while loop of regexSearch / regularSearch, run to the end of the
\* file: the state after one iteration (nxt) is worked out once and the loop
\* goes on from it
RECURSIVE SearchLoop(_, _, _, _, _)
SearchLoop(st, qry, filePath, icase, regex) ==
    IF getline(st.ifs).ok
    THEN CHOOSE end \in {SearchLoop(nxt, qry, filePath, icase, regex) :
                            nxt \in {SearchLine(st, qry, filePath, icase, regex)}} :
             TRUE
    ELSE st

LoopStart(data) == [ifs |-> data, lineNumber |-> 0, results |-> <<>>]

\* ------------------------------------------------------------- filesystem
File(data) == [kind |-> "file", data |-> data]
NoEnt  == [kind |-> "ENOENT"]
EAcces == [kind |-> "EACCES"]

\* std::ifstream ifs(filePath); ifs.is_open()
is_open(entry) == entry.kind = "file"

\* one operator<< on std::cerr: the stream is unit-buffered, so what one
\* operator<< inserts reaches the stream as one piece, and nothing keeps
\* the pieces of two threads apart
Piece(text) == [stream |-> "cerr", text |-> text]

\* ec.message() for the errno the open failed with
ErrorMessage(entry) ==
    IF entry.kind = "ENOENT" THEN "No such file or directory"
                             ELSE "Permission denied"

\* the diagnostic searchInFile writes to std::cerr when the open fails, as
\* the pieces its chain of operator<< inserts one after the other
OpenDiagnostic(entry, filePath) ==
    IF entry.kind = "EACCES"
    THEN <<Piece("Permission denied, cannot access file: "),
           Piece(filePath),
           Piece(LF)>>
    ELSE <<Piece("Could not open file ["),
           Piece(filePath),
           Piece("]: "),
           Piece(ErrorMessage(entry)),
           Piece(LF)>>

\* what the C++ runtime's terminate handler writes to stderr when
\* std::regex_error leaves a thread's function, as the build's runs show
\* it: stderr is unbuffered and the handler makes six writes
TerminateMessage ==
    <<Piece("terminate called after throwing an instance of '"),
      Piece("std::regex_error"),
      Piece("'\n"),
      Piece("  what():  "),
      Piece("Mismatched '(' and ')' in regular expression"),
      Piece(LF)>>

\* what the handler writes when it finds another thread already in it
RecursiveMessage == <<Piece("terminate called recursively\n")>>

\* what the handler writes when std::terminate is called by the destructor
\* of a joinable std::thread
NoExceptionMessage == <<Piece("terminate called without an active exception\n")>>

\* what() of the std::system_error that std::thread's constructor throws
\* when the thread cannot be created (EAGAIN)
ThreadError == "Resource temporarily unavailable"

\* the line main writes for an exception that is no filesystem_error
ErrorNote(what) == [stream |-> "cerr", text |-> "Error", what |-> what]

\* searchInFile with a stream that throws when the open fails
searchInFileOpenThrows(fsys, filePath, qry, icase, regex) ==
    LET entry == fsys[filePath] IN
    IF ~is_open(entry) \/ (regex /\ ~RegexValid(qry))
    THEN [threw |-> TRUE, results |-> <<>>, cerr |-> <<>>]
    ELSE [threw   |-> FALSE,
          results |-> SearchLoop(LoopStart(entry.data), qry, filePath, icase, regex).results,
          cerr    |-> <<>>]

\* searchInFile as one call: what it returns or that it throws, and what it
\* writes to std::cerr.
searchInFile(fsys, filePath, qry, icase, regex) ==
    LET entry == fsys[filePath] IN
    IF ~is_open(entry)
    THEN [threw |-> FALSE, results |-> <<>>, cerr |-> OpenDiagnostic(entry, filePath)]
    ELSE IF regex /\ ~RegexValid(qry)
    THEN [threw |-> TRUE, results |-> <<>>, cerr |-> <<>>]
    ELSE [threw   |-> FALSE,
          results |-> SearchLoop(LoopStart(entry.data), qry, filePath, icase, regex).results,
          cerr    |-> <<>>]

\* ------------------------------------------------------- directory trees
\* What a path names: its kind and, for a directory, its entries in the
\* order the directory_iterator delivers them.  The path of an entry is the
\* path of its directory followed by the entry's position.
Node(kind, entries) == [kind |-> kind, entries |-> entries]

\* a regular file, a symlink to a regular file, a FIFO (or device, socket),
\* a symlink whose target is missing
LeafKinds == {"regular", "symlink_to_regular", "fifo", "symlink_dangling"}

\* a directory, a symlink to a directory, a directory that cannot be opened
DirKinds == {"directory", "symlink_to_directory", "directory_denied"}

EmptyDirectory == Node("directory", <<>>)

\* the symbolic links: to a regular file, to a directory outside the tree
\* (its entries stand below the link), to nothing, and to the directory
\* that holds the link (ln -s . name), below which the entries of that
\* directory are found again
LinkKinds == {"symlink_to_regular", "symlink_to_directory", "symlink_dangling",
              "symlink_to_parent"}

\* the symbolic links the resolution of one path follows before it fails
\* with ELOOP: 40 on Linux, where the 41st link of a path is refused
MaxSymlinks == 40

\* entry i of a directory as the resolution of a path goes through it
Follow(node, i) ==
    LET child == node.entries[i] IN
    IF child.kind = "symlink_to_parent"
    THEN Node("symlink_to_directory", node.entries)
    ELSE child

\* what the path names, every symbolic link on it followed; nothing lies
\* below a node without entries
RECURSIVE Resolve(_, _)
Resolve(node, path) ==
    IF path = <<>> \/ node.entries = <<>> THEN node
    ELSE Resolve(Follow(node, Head(path)), Tail(path))

\* the symbolic links among the components of path below node, the last
\* component included
LinksBelow(node, path) ==
    Cardinality({n \in 1..Len(path) :
        Resolve(node, SubSeq(path, 1, n - 1)).entries[path[n]].kind \in LinkKinds})

\* the symbolic links the resolution of path follows: those on the way to
\* the root, the root itself, those below it
Links(root, path) ==
    root_links + (IF root.kind \in LinkKinds THEN 1 ELSE 0) + LinksBelow(root, path)

\* a path whose resolution fails with ELOOP
TooManyLinks == Node("symlink_loop", <<>>)

\* what a status query that follows symbolic links finds at path
NodeAt(root, path) ==
    IF Links(root, path) > MaxSymlinks THEN TooManyLinks ELSE Resolve(root, path)

\* the paths at and below path: those the entries of the directories name,
\* as far as the resolution of a path goes
RECURSIVE PathsBelow(_, _)
PathsBelow(root, path) ==
    {path} \cup UNION {PathsBelow(root, Append(path, i)) :
                          i \in 1..Len(NodeAt(root, path).entries)}

\* std::filesystem::is_directory(p, ec) and directory_entry::is_directory(ec):
\* the status of the path, symlinks followed
is_directory(node) == node.kind \in DirKinds

\* !is_directory in place of is_regular_file: whatever is not a directory
\* counts as a file
is_not_directory(node) == node.kind \notin DirKinds

\* std::filesystem::is_regular_file(p, ec) and
\* directory_entry::is_regular_file(ec): the status, symlinks followed
is_regular_file(node) == node.kind \in {"regular", "symlink_to_regular"}

\* the error_code the status query leaves set: the errno of a failed stat
StatusError(node) ==
    IF node.kind \in {"symlink_dangling", "nonexistent"}
    THEN "No such file or directory"
    ELSE IF node.kind = "symlink_loop"
    THEN "Too many levels of symbolic links"
    ELSE ""

\* std::filesystem::exists(p), the overload without an error_code: a status
\* that cannot be determined is thrown as filesystem_error, a missing target
\* is the answer false
exists(node) ==
    IF node.kind = "symlink_loop"
    THEN [threw |-> TRUE, value |-> FALSE,
          what  |-> "filesystem error: status: Too many levels of symbolic links"]
    ELSE [threw |-> FALSE, value |-> node.kind \notin {"symlink_dangling", "nonexistent"},
          what  |-> ""]

\* std::filesystem::directory_iterator it(dir, ec) leaves ec set
OpenDirFails(node) == node.kind = "directory_denied"

DeniedDirNote(path) ==
    [stream |-> "cerr", text |-> "Permission denied, cannot access directory",
     path |-> path]
EntryErrorNote(path, message) ==
    [stream |-> "cerr", text |-> "Error accessing entry", path |-> path,
     message |-> message]
PathErrorNote(path, message) ==
    [stream |-> "cerr", text |-> "Error accessing path", path |-> path,
     message |-> message]
NotFileOrDirNote(path) ==
    [stream |-> "cerr", text |-> "is not a regular file or a directory.",
     path |-> path]
DoesNotExistNote(path) ==
    [stream |-> "cerr", text |-> "does not exist.", path |-> path]
FilesFoundNote(n) ==
    [stream |-> "cout", text |-> "files found", count |-> n]

\* the else branch of collectFiles: what is written for a path that is
\* neither a directory nor a regular file; exists is asked only when the
\* status query left no error, and then it does not throw
RootDiagnostic(node, path) ==
    IF StatusError(node) # "" THEN PathErrorNote(path, StatusError(node))
    ELSE IF exists(node).value THEN NotFileOrDirNote(path)
    ELSE DoesNotExistNote(path)

\* ------------------------------------------------------------ the engine
\* CustomGrep::CustomGrep: the worker count from the hardware parallelism
ThreadCountFor(h) == IF h = 0 THEN 1 ELSE h

\* chunk_size with the division rounded down
ChunkSizeFloor(total_files, threadCount) == total_files \div threadCount

\* ceiling division of the file count by the worker count
ChunkSize(total_files, threadCount) ==
    (total_files + threadCount - 1) \div threadCount

Min(a, b) == IF a <= b THEN a ELSE b

\* end_idx one past the chunk
EndIdxOverlap(start_idx, chunk, total_files) ==
    Min(start_idx + chunk + 1, total_files)

\* std::min(start_idx + chunk_size, total_files)
EndIdx(start_idx, chunk, total_files) == Min(start_idx + chunk, total_files)

\* all_files[path_index], path_index counted from 0 as in the source
FileAt(path_index) == all_files[path_index + 1]

\* out taken through a thread_index captured by reference: the index the
\* launch loop has reached
OutIndexByRef(t) ==
    IF thread_index < m_threadCount THEN thread_index ELSE m_threadCount - 1

\* auto& out = local_results[thread_index], thread_index captured by value
OutIndex(t) == threads[t].thread_index

\* a join that does not wait
JoinReadyDetached(t) == TRUE

\* th.join() returns once the thread's function has returned
JoinReady(t) == threads[t].state = "finished"

\* a merge that takes the buffers in the order the workers finished
MergeSourceByCompletion(k) ==
    IF k < Len(finish_order) THEN finish_order[k + 1] ELSE k

\* the merge loop takes the buffers in the order of local_results
MergeSource(k) == k

\* a Match after it was moved from (the implicit move constructor): path
\* and line are left empty, line_number is a size_t and is copied, so it
\* stays
MovedFrom(m) == [path |-> "", line_number |-> m.line_number, line |-> <<>>]

NoFilesNote ==
    [stream |-> "cerr", text |-> "No files to search or no threads available."]
\* std::cout << "Thread " << thread_index << " has no files to process."
\* << std::endl: four operator<<, each one a write of its own
IdleNote(i) ==
    <<[stream |-> "cout", text |-> "Thread "],
      [stream |-> "cout", text |-> ToString(i)],
      [stream |-> "cout", text |-> " has no files to process."],
      [stream |-> "cout", text |-> LF]>>
MatchLine(m) ==
    [stream |-> "cout", text |-> "match", path |-> m.path,
     line_number |-> m.line_number, line |-> m.line]

Alive == pc # "terminated"

\* the thread of main is in the terminate handler
MainTerminating == pc \in {"terminate", "terminate_recursively", "abort"}

\* some thread is in the terminate handler
HandlerEntered ==
    \/ MainTerminating
    \/ \E u \in 1..Len(threads) : threads[u].state = "terminating"

\* ------------------------------------------------------------ the inputs
\* the filesystem of the engine runs: two readable files, one file whose
\* open is denied and one path with no file
SampleFS ==
    [p \in {"a.txt", "b.txt", "denied.txt", "missing.txt"} |->
        CASE p = "a.txt"       -> File(<<"a", LF, "A", CR, LF>>)
          [] p = "b.txt"       -> File(<<"A", "a", LF, LF, "a">>)
          [] p = "denied.txt"  -> EAcces
          [] p = "missing.txt" -> NoEnt]

\* two orders in which an enumeration yields the four paths
EnumerationOrders ==
    {<<"a.txt", "missing.txt", "b.txt", "denied.txt">>,
     <<"denied.txt", "b.txt", "missing.txt", "a.txt">>}

\* l holds some of the elements of o, in the order they have in o
RECURSIVE IsSublist(_, _)
IsSublist(l, o) ==
    IF l = <<>> THEN TRUE
    ELSE IF o = <<>> THEN FALSE
    ELSE IF Head(l) = Head(o) THEN IsSublist(Tail(l), Tail(o))
    ELSE IsSublist(l, Tail(o))

\* file lists as the enumeration produces them: no path twice, the paths
\* in one of the enumeration orders
FileLists ==
    {l \in UNION {[1..n -> DOMAIN SampleFS] : n \in 0..MaxFiles} :
        \E o \in EnumerationOrders : IsSublist(l, o)}

EngineQueries == {<<"a">>, <<"(">>}

\* the file lists of the runs whose pattern does not compile: short ones,
\* since every thread that reaches the pattern goes through the terminate
\* handler write by write
MalformedRunLists ==
    {<<>>,
     <<"a.txt">>,
     <<"missing.txt">>,
     <<"denied.txt">>,
     <<"a.txt", "b.txt">>,
     <<"a.txt", "missing.txt">>,
     <<"denied.txt", "b.txt">>,
     <<"missing.txt", "denied.txt">>}

\* the engine's variables before parallelSearch is entered
CallIdle ==
    /\ chunk_size = 0
    /\ thread_index = 0
    /\ threads = <<>>
    /\ local_results = <<>>
    /\ join_index = 0
    /\ merge_index = 0
    /\ all_results = <<>>
    /\ finish_order = <<>>

\* no direct call of searchInFile is in progress
ScanIdle ==
    /\ scan_pc = "idle"
    /\ scan_path = ""
    /\ ifs = <<>>
    /\ lineNumber = 0
    /\ results = <<>>

\* no call of collectFiles is in progress
CollectIdle ==
    /\ collect_pc = "idle"
    /\ stack = <<>>
    /\ files = <<>>
    /\ raised = ""

\* the command line: argv[0] is the program, then the query, the directory
\* and the flags
ProgramName == "grep_exec"
DirPath == "dir"
IgnoreCaseFlag == "--ignore-case"
RegexFlag == "--regex"

\* argc and argv[i] as main sees them, argv[0] first
argc == Len(argv)
Arg(i) == argv[i + 1]

\* the command line that main parses to a query and two flag values
ArgvOf(qry, ic, re) ==
    <<ProgramName, qry, DirPath>>
        \o (IF ic THEN <<IgnoreCaseFlag>> ELSE <<>>)
        \o (IF re THEN <<RegexFlag>> ELSE <<>>)

\* main after the arguments are parsed and the file list is there; the
\* members hold their default member initializers
Init ==
    /\ fs = SampleFS
    /\ hc \in 0..MaxThreads
    /\ ignoreCase \in BOOLEAN
    /\ useRegex \in BOOLEAN
    /\ query \in EngineQueries
    /\ all_files \in FileLists
    /\ (useRegex /\ ~RegexValid(query)) => all_files \in MalformedRunLists
    /\ m_ignoreCase = FALSE
    /\ m_regexSearch = FALSE
    /\ m_threadCount = 1
    /\ pc = "construct"
    /\ CallIdle
    /\ cerr = <<>>
    /\ cout = <<>>
    /\ exit_status = "running"
    /\ ScanIdle
    /\ root_links = 0
    /\ tree = EmptyDirectory
    /\ CollectIdle
    /\ argv = ArgvOf(query, ignoreCase, useRegex)

\* ------------------------------------------------------------- the actions
\* CustomGrep custom_grep(ignoreCase, useRegex)
Construct ==
    /\ pc = "construct"
    /\ m_ignoreCase' = ignoreCase
    /\ m_regexSearch' = useRegex
    /\ m_threadCount' = ThreadCountFor(hc)
    /\ pc' = "call"
    /\ UNCHANGED <<envVars, callVars, cerr, cout, exit_status, scanVars, collectVars>>

\* the members of another constructed CustomGrep: its constructor asked
\* std::thread::hardware_concurrency() itself, at the time it ran
OtherObjects ==
    {[m_ignoreCase |-> ic, m_regexSearch |-> re, m_threadCount |-> ThreadCountFor(h)] :
        ic \in BOOLEAN, re \in BOOLEAN, h \in 0..MaxThreads}

\* the caller's thread holds the constructed object and is not inside one
\* of its member functions
ObjectAtRest == pc \in {"call", "returned"}

\* custom_grep = other, custom_grep = std::move(other): the defaulted
\* assignment operators are public and copy the three members of other
\* into the object, before its call of parallelSearch or after it
Assign ==
    /\ ObjectAtRest
    /\ \E other \in OtherObjects :
          /\ m_ignoreCase' = other.m_ignoreCase
          /\ m_regexSearch' = other.m_regexSearch
          /\ m_threadCount' = other.m_threadCount
    /\ UNCHANGED <<envVars, pc, callVars, cerr, cout, exit_status, scanVars, collectVars>>

\* parallelSearch up to the launch loop, entered without the early return
EnterNoGuard ==
    /\ pc = "call"
    /\ chunk_size' = IF m_threadCount = 0 THEN 0
                     ELSE ChunkSize(Len(all_files), m_threadCount)
    /\ local_results' = [i \in 0..(m_threadCount - 1) |-> <<>>]
    /\ thread_index' = 0
    /\ pc' = "launch"
    /\ UNCHANGED <<envVars, objVars, threads, join_index, merge_index,
                   all_results, finish_order, cerr, cout, exit_status, scanVars, collectVars>>

\* parallelSearch up to the launch loop: the early return, chunk_size,
\* local_results
Enter ==
    /\ pc = "call"
    /\ IF Len(all_files) = 0 \/ m_threadCount = 0
       THEN /\ cerr' = Append(cerr, NoFilesNote)
            /\ all_results' = <<>>
            /\ pc' = "returned"
            /\ UNCHANGED <<chunk_size, local_results, thread_index>>
       ELSE /\ chunk_size' = ChunkSize(Len(all_files), m_threadCount)
            /\ local_results' = [i \in 0..(m_threadCount - 1) |-> <<>>]
            /\ thread_index' = 0
            /\ pc' = "launch"
            /\ UNCHANGED <<cerr, all_results>>
    /\ UNCHANGED <<envVars, objVars, threads, join_index, merge_index,
                   finish_order, cout, exit_status, scanVars, collectVars>>

\* one iteration of the launch loop that starts a thread
LaunchThread ==
    /\ pc = "launch"
    /\ thread_index < m_threadCount
    /\ LET start_idx == thread_index * chunk_size IN
       /\ start_idx < Len(all_files)
       /\ threads' = Append(threads,
              [thread_index |-> thread_index,
               start_idx    |-> start_idx,
               end_idx      |-> EndIdx(start_idx, chunk_size, Len(all_files)),
               path_index   |-> start_idx,
               pending      |-> <<>>,
               state        |-> "running"])
    /\ thread_index' = thread_index + 1
    /\ UNCHANGED <<envVars, objVars, pc, chunk_size, local_results, join_index,
                   merge_index, all_results, finish_order, cerr, cout,
                   exit_status, scanVars, collectVars>>

\* the iteration that would start a thread, when the thread cannot be
\* created: threads.emplace_back throws std::system_error.  With no thread
\* started yet the exception leaves parallelSearch.  With a thread started,
\* the unwinding destroys threads, the destructor of a joinable std::thread
\* calls std::terminate and main's thread enters the handler, which has the
\* short message to write or, when another thread is in the handler
\* already, either message.
LaunchThreadFails ==
    /\ pc = "launch"
    /\ thread_index < m_threadCount
    /\ thread_index * chunk_size < Len(all_files)
    /\ raised' = ThreadError
    /\ IF threads = <<>>
       THEN pc' = "threw"
       ELSE pc' \in IF HandlerEntered
                    THEN {"terminate_recursively", "terminate"}
                    ELSE {"terminate"}
    /\ UNCHANGED <<envVars, objVars, callVars, cerr, cout, exit_status,
                   scanVars, collect_pc, stack, files>>

\* the iteration of the launch loop that finds no files left starts on its
\* note: the first operator<< is made here, the others are left to
\* LaunchIdleWrite.  The threads started before run meanwhile.
LaunchIdle ==
    /\ pc = "launch"
    /\ thread_index < m_threadCount
    /\ thread_index * chunk_size >= Len(all_files)
    /\ cout' = Append(cout, IdleNote(thread_index)[1])
    /\ pc' = "note_index"
    /\ UNCHANGED <<envVars, objVars, callVars, cerr, exit_status, scanVars,
                   collectVars>>

\* main's thread is between two operator<< of the note
WritingNote == pc \in {"note_index", "note_text", "note_endl"}

\* the position in the note of the operator<< that comes next
NotePosition ==
    CASE pc = "note_index" -> 2
      [] pc = "note_text"  -> 3
      [] pc = "note_endl"  -> 4

\* the next operator<< of the note, the last one followed by going on to
\* the next index instead of leaving the loop
LaunchIdleWriteContinues ==
    /\ WritingNote
    /\ cout' = Append(cout, IdleNote(thread_index)[NotePosition])
    /\ IF pc = "note_endl"
       THEN /\ thread_index' = thread_index + 1
            /\ pc' = "launch"
       ELSE /\ pc' = (IF pc = "note_index" THEN "note_text" ELSE "note_endl")
            /\ UNCHANGED thread_index
    /\ UNCHANGED <<envVars, objVars, chunk_size, threads, join_index,
                   local_results, merge_index, all_results, finish_order, cerr,
                   exit_status, scanVars, collectVars>>

\* the next operator<< of the note; after std::endl the break leaves the
\* launch loop
LaunchIdleWrite ==
    /\ WritingNote
    /\ cout' = Append(cout, IdleNote(thread_index)[NotePosition])
    /\ IF pc = "note_endl"
       THEN /\ join_index' = 0
            /\ pc' = "join"
       ELSE /\ pc' = (IF pc = "note_index" THEN "note_text" ELSE "note_endl")
            /\ UNCHANGED join_index
    /\ UNCHANGED <<envVars, objVars, chunk_size, thread_index, threads,
                   local_results, merge_index, all_results, finish_order, cerr,
                   exit_status, scanVars, collectVars>>

\* the launch loop ends with thread_index == m_threadCount
LaunchDone ==
    /\ pc = "launch"
    /\ thread_index >= m_threadCount
    /\ join_index' = 0
    /\ pc' = "join"
    /\ UNCHANGED <<envVars, objVars, chunk_size, thread_index, threads,
                   local_results, merge_index, all_results, finish_order, cerr,
                   cout, exit_status, scanVars, collectVars>>

\* one iteration of a worker's loop: searchInFile on the next path of its
\* range and the insert into its buffer.  When the open fails the call
\* starts on its diagnostic: the first piece is written here, the others
\* are left to WorkerWrite.  An exception that leaves the thread's function
\* takes the thread into std::terminate: the handler has its message to
\* write, the short one or the long one when another thread is in the
\* handler already (the handler's flag is read and set without a lock), and
\* then aborts the process.  The other threads run on until the abort.
WorkerScan(t) ==
    /\ Alive
    /\ threads[t].state = "running"
    /\ threads[t].pending = <<>>
    /\ threads[t].path_index < threads[t].end_idx
    /\ LET path == FileAt(threads[t].path_index)
           r    == searchInFile(fs, path, query, m_ignoreCase, m_regexSearch)
           out  == OutIndex(t)
       IN IF r.threw
          THEN /\ \E msg \in IF HandlerEntered
                             THEN {RecursiveMessage, TerminateMessage}
                             ELSE {TerminateMessage} :
                     threads' = [threads EXCEPT ![t].state = "terminating",
                                                ![t].pending = msg]
               /\ UNCHANGED <<pc, exit_status, local_results, cerr>>
          ELSE IF r.cerr # <<>>
          THEN /\ cerr' = Append(cerr, Head(r.cerr))
               /\ threads' = [threads EXCEPT ![t].pending = Tail(r.cerr)]
               /\ UNCHANGED <<pc, exit_status, local_results>>
          ELSE /\ local_results' =
                     [local_results EXCEPT ![out] = local_results[out] \o r.results]
               /\ threads' = [threads EXCEPT ![t].path_index = @ + 1]
               /\ UNCHANGED <<pc, exit_status, cerr>>
    /\ UNCHANGED <<envVars, objVars, chunk_size, thread_index, join_index,
                   merge_index, all_results, finish_order, cout, scanVars, collectVars>>

\* the next operator<< of a diagnostic a worker is writing; after the last
\* one searchInFile returns no match and the loop moves to the next path
WorkerWrite(t) ==
    /\ Alive
    /\ threads[t].state = "running"
    /\ threads[t].pending # <<>>
    /\ cerr' = Append(cerr, Head(threads[t].pending))
    /\ threads' = [threads EXCEPT
                      ![t].pending = Tail(@),
                      ![t].path_index =
                          IF Len(threads[t].pending) = 1 THEN @ + 1 ELSE @]
    /\ UNCHANGED <<envVars, objVars, pc, chunk_size, thread_index,
                   local_results, join_index, merge_index, all_results,
                   finish_order, cout, exit_status, scanVars, collectVars>>

\* the terminate handler a worker has entered writes its message
WorkerTerminate(t) ==
    /\ Alive
    /\ threads[t].state = "terminating"
    /\ threads[t].pending # <<>>
    /\ cerr' = Append(cerr, Head(threads[t].pending))
    /\ threads' = [threads EXCEPT ![t].pending = Tail(@)]
    /\ UNCHANGED <<envVars, objVars, pc, chunk_size, thread_index,
                   local_results, join_index, merge_index, all_results,
                   finish_order, cout, exit_status, scanVars, collectVars>>

\* the terminate handler has written its message and calls abort(): the
\* process ends with SIGABRT, whatever the other threads were doing
WorkerAbort(t) ==
    /\ Alive
    /\ threads[t].state = "terminating"
    /\ threads[t].pending = <<>>
    /\ pc' = "terminated"
    /\ exit_status' = "SIGABRT"
    /\ UNCHANGED <<envVars, objVars, chunk_size, thread_index, threads,
                   local_results, join_index, merge_index, all_results,
                   finish_order, cerr, cout, scanVars, collectVars>>

\* a worker's loop ends and its function returns
WorkerReturn(t) ==
    /\ Alive
    /\ threads[t].state = "running"
    /\ threads[t].path_index >= threads[t].end_idx
    /\ threads' = [threads EXCEPT ![t].state = "finished"]
    /\ finish_order' = Append(finish_order, threads[t].thread_index)
    /\ UNCHANGED <<envVars, objVars, pc, chunk_size, thread_index,
                   local_results, join_index, merge_index, all_results, cerr,
                   cout, exit_status, scanVars, collectVars>>

\* one iteration of the join loop: th.join() blocks until th has returned
Join ==
    /\ pc = "join"
    /\ join_index < Len(threads)
    /\ JoinReady(join_index + 1)
    /\ threads' = [threads EXCEPT ![join_index + 1].state =
                      IF @ = "finished" THEN "joined" ELSE @]
    /\ join_index' = join_index + 1
    /\ UNCHANGED <<envVars, objVars, pc, chunk_size, thread_index,
                   local_results, merge_index, all_results, finish_order, cerr,
                   cout, exit_status, scanVars, collectVars>>

\* the join loop ends; all_results is declared and reserved
JoinDone ==
    /\ pc = "join"
    /\ join_index >= Len(threads)
    /\ all_results' = <<>>
    /\ merge_index' = 0
    /\ pc' = "merge"
    /\ UNCHANGED <<envVars, objVars, chunk_size, thread_index, threads,
                   local_results, join_index, finish_order, cerr, cout,
                   exit_status, scanVars, collectVars>>

\* one iteration of the merge loop: a buffer is moved to the end of
\* all_results
Merge ==
    /\ pc = "merge"
    /\ merge_index < m_threadCount
    /\ LET src == MergeSource(merge_index) IN
       /\ all_results' = all_results \o local_results[src]
       /\ local_results' =
             [local_results EXCEPT ![src] =
                 [i \in 1..Len(local_results[src]) |->
                      MovedFrom(local_results[src][i])]]
    /\ merge_index' = merge_index + 1
    /\ UNCHANGED <<envVars, objVars, pc, chunk_size, thread_index, threads,
                   join_index, finish_order, cerr, cout, exit_status, scanVars, collectVars>>

\* the merge loop ends: return all_results
MergeDone ==
    /\ pc = "merge"
    /\ merge_index >= m_threadCount
    /\ pc' = "returned"
    /\ UNCHANGED <<envVars, objVars, callVars, cerr, cout, exit_status, scanVars, collectVars>>

\* the terminate handler main's thread has entered writes its message
MainTerminate ==
    /\ pc \in {"terminate", "terminate_recursively"}
    /\ cerr' = cerr \o (IF pc = "terminate" THEN NoExceptionMessage
                                            ELSE RecursiveMessage)
    /\ pc' = "abort"
    /\ UNCHANGED <<envVars, objVars, callVars, cout, exit_status, scanVars, collectVars>>

\* the handler calls abort(): the process ends with SIGABRT
MainAbort ==
    /\ pc = "abort"
    /\ pc' = "terminated"
    /\ exit_status' = "SIGABRT"
    /\ UNCHANGED <<envVars, objVars, callVars, cerr, cout, scanVars, collectVars>>

\* catch (const std::exception& e): report, return 1
MainCatchException ==
    /\ pc = "threw"
    /\ cerr' = Append(cerr, ErrorNote(raised))
    /\ exit_status' = 1
    /\ pc' = "exited"
    /\ UNCHANGED <<envVars, objVars, callVars, cout, scanVars, collectVars>>

\* main prints one line per match and returns 0
MainPrint ==
    /\ pc = "returned"
    /\ cout' = cout \o [i \in 1..Len(all_results) |-> MatchLine(all_results[i])]
    /\ exit_status' = 0
    /\ pc' = "exited"
    /\ UNCHANGED <<envVars, objVars, callVars, cerr, scanVars, collectVars>>

Next ==
    \/ Construct
    \/ Enter
    \/ LaunchThread
    \/ LaunchThreadFails
    \/ LaunchIdle
    \/ LaunchIdleWrite
    \/ LaunchDone
    \/ \E t \in 1..Len(threads) : WorkerScan(t)
    \/ \E t \in 1..Len(threads) : WorkerWrite(t)
    \/ \E t \in 1..Len(threads) : WorkerTerminate(t)
    \/ \E t \in 1..Len(threads) : WorkerAbort(t)
    \/ \E t \in 1..Len(threads) : WorkerReturn(t)
    \/ Join
    \/ JoinDone
    \/ Merge
    \/ MergeDone
    \/ MainPrint
    \/ MainCatchException
    \/ MainTerminate
    \/ MainAbort

Spec == Init /\ [][Next]_vars

\* the steps of the thread that runs main
MainThreadStep ==
    \/ Construct
    \/ Enter
    \/ LaunchThread
    \/ LaunchThreadFails
    \/ LaunchIdle
    \/ LaunchIdleWrite
    \/ LaunchDone
    \/ Join
    \/ JoinDone
    \/ Merge
    \/ MergeDone
    \/ MainPrint
    \/ MainCatchException
    \/ MainTerminate
    \/ MainAbort

\* the steps of the worker thread started t-th
WorkerStep(t) ==
    \/ WorkerScan(t)
    \/ WorkerWrite(t)
    \/ WorkerTerminate(t)
    \/ WorkerAbort(t)
    \/ WorkerReturn(t)

\* the same program under a scheduler that lets every thread that can take
\* a step take one in the end
SpecFair ==
    /\ Init
    /\ [][Next]_vars
    /\ WF_vars(MainThreadStep)
    /\ \A t \in 1..MaxThreads : WF_vars(t \in 1..Len(threads) /\ WorkerStep(t))

\* a caller that, unlike main, assigns to the object it constructed, before
\* it calls parallelSearch or after: no file, two readable files, or a
\* file that cannot be opened
InitObject ==
    /\ Init
    /\ all_files \in {<<>>, <<"a.txt", "b.txt">>, <<"denied.txt">>}

NextObject ==
    \/ Assign
    \/ Next

SpecObject == InitObject /\ [][NextObject]_vars

\* ------------------------------------------- searchInFile, called directly
ScanFile == "f.txt"

FileEntries == {File(d) : d \in StringsUpTo(FileAlphabet, MaxLen)} \cup {NoEnt, EAcces}

\* a constructed CustomGrep whose searchInFile is about to be called on one
\* path, as the tests do
InitScan ==
    /\ fs \in [{ScanFile} -> FileEntries]
    /\ hc = 1
    /\ ignoreCase \in BOOLEAN
    /\ useRegex \in BOOLEAN
    /\ query \in StringsUpTo(QueryAlphabet, MaxQueryLen)
    /\ all_files = <<>>
    /\ m_ignoreCase = ignoreCase
    /\ m_regexSearch = useRegex
    /\ m_threadCount = ThreadCountFor(hc)
    /\ pc = "api"
    /\ CallIdle
    /\ cerr = <<>>
    /\ cout = <<>>
    /\ exit_status = "running"
    /\ scan_pc = "open"
    /\ scan_path = ScanFile
    /\ ifs = <<>>
    /\ lineNumber = 0
    /\ results = <<>>
    /\ root_links = 0
    /\ tree = EmptyDirectory
    /\ CollectIdle
    /\ argv = <<>>

notScan == <<envVars, objVars, pc, callVars, cout, exit_status, collectVars>>

\* searchInFile: the stream is opened; a failed open is reported and the
\* empty results are returned
ScanOpen ==
    /\ scan_pc = "open"
    /\ IF ~is_open(fs[scan_path])
       THEN /\ cerr' = cerr \o OpenDiagnostic(fs[scan_path], scan_path)
            /\ scan_pc' = "returned"
            /\ UNCHANGED ifs
       ELSE /\ ifs' = fs[scan_path].data
            /\ scan_pc' = IF m_regexSearch THEN "compile" ELSE "loop"
            /\ UNCHANGED cerr
    /\ UNCHANGED <<notScan, scan_path, lineNumber, results>>

\* regexSearch with the regex_error caught and an empty result returned
ScanCompileCaught ==
    /\ scan_pc = "compile"
    /\ scan_pc' = IF RegexValid(query) THEN "loop" ELSE "returned"
    /\ UNCHANGED <<notScan, cerr, scan_path, ifs, lineNumber, results>>

\* regexSearch: std::regex re(query, flags) compiles or throws
ScanCompile ==
    /\ scan_pc = "compile"
    /\ scan_pc' = IF RegexValid(query) THEN "loop" ELSE "threw"
    /\ UNCHANGED <<notScan, cerr, scan_path, ifs, lineNumber, results>>

\* one iteration of the while loop of regexSearch or regularSearch
ScanLine ==
    /\ scan_pc = "loop"
    /\ getline(ifs).ok
    /\ LET st == SearchLine([ifs |-> ifs, lineNumber |-> lineNumber, results |-> results],
                            query, scan_path, m_ignoreCase, m_regexSearch)
       IN /\ ifs' = st.ifs
          /\ lineNumber' = st.lineNumber
          /\ results' = st.results
    /\ UNCHANGED <<notScan, cerr, scan_pc, scan_path>>

\* getline fails at the end of the file: the loop ends, results is returned
ScanEnd ==
    /\ scan_pc = "loop"
    /\ ~getline(ifs).ok
    /\ scan_pc' = "returned"
    /\ UNCHANGED <<notScan, cerr, scan_path, ifs, lineNumber, results>>

NextScan ==
    \/ ScanOpen
    \/ ScanCompile
    \/ ScanLine
    \/ ScanEnd

SpecScan == InitScan /\ [][NextScan]_vars

\* ------------------------------------------- collectFiles, called directly
\* sequences of entries with n nodes in all, and the entries with n nodes
RECURSIVE Forests(_), TreesOfSize(_)
TreesOfSize(n) ==
    LET below == Forests(n - 1) IN
    (IF n = 1 THEN {Node(k, <<>>) : k \in LeafKinds} ELSE {})
    \cup {Node(k, f) : k \in DirKinds, f \in below}

Forests(n) ==
    IF n = 0 THEN {<<>>}
    ELSE UNION {LET first == TreesOfSize(m)
                    rest  == Forests(n - m)
                IN {<<t>> \o f : t \in first, f \in rest} : m \in 1..n}

\* what the path given to collectFiles can name: nothing, a non-directory,
\* a directory that cannot be opened, a directory with up to MaxNodes
\* entries below it
Roots ==
    {Node(k, <<>>) : k \in LeafKinds \cup {"nonexistent", "directory_denied"}}
    \cup {Node("directory", f) : f \in UNION {Forests(n) : n \in 0..MaxNodes}}

\* a symbolic link to the directory that holds it
LinkToParent == Node("symlink_to_parent", <<>>)

\* the links left to the paths below a root whose own path goes through
\* links (l/l/.../l/root, with l a link to the directory that holds it)
MaxLinksBelowRoot == 8

\* the links such a path goes through
DeepRootLinks == MaxSymlinks - MaxLinksBelowRoot

\* directories with a link to themselves: every file of the directory is
\* found again below the link, and again below the link found there, until
\* the resolution of the path has followed MaxSymlinks links
LinkedRoots ==
    {Node("directory", <<LinkToParent>>),
     Node("directory", <<Node("regular", <<>>), LinkToParent>>),
     Node("directory", <<LinkToParent, Node("regular", <<>>)>>),
     Node("directory", <<Node("symlink_to_regular", <<>>), LinkToParent>>),
     Node("directory", <<Node("directory", <<Node("regular", <<>>), LinkToParent>>),
                         Node("regular", <<>>)>>),
     Node("directory", <<Node("directory_denied", <<>>), LinkToParent,
                         Node("symlink_dangling", <<>>)>>)}

\* the path handed to collectFiles
RootPath == <<>>

\* what the status queries of collectFiles find at that path
Root == NodeAt(tree, RootPath)

InitCollect ==
    /\ fs = SampleFS
    /\ hc = 1
    /\ ignoreCase = FALSE
    /\ useRegex = FALSE
    /\ query = <<>>
    /\ all_files = <<>>
    /\ m_ignoreCase = FALSE
    /\ m_regexSearch = FALSE
    /\ m_threadCount = 1
    /\ pc = "api"
    /\ CallIdle
    /\ cerr = <<>>
    /\ cout = <<>>
    /\ exit_status = "running"
    /\ ScanIdle
    /\ root_links \in {0, DeepRootLinks}
    /\ tree \in IF root_links = 0 THEN Roots ELSE LinkedRoots
    /\ collect_pc = "enter"
    /\ stack = <<>>
    /\ files = <<>>
    /\ raised = ""
    /\ argv = <<>>

notCollect == <<fs, hc, ignoreCase, useRegex, query, all_files, objVars, pc,
                callVars, exit_status, scanVars, tree, root_links, argv>>

\* what() of the filesystem_error operator++ throws: the text of the
\* operation, then the message of the errno the readdir failed with
CannotAdvance(errno) ==
    IF errno = "EIO"
    THEN "filesystem error: directory iterator cannot advance: Input/output error"
    ELSE "filesystem error: directory iterator cannot advance: Bad file descriptor"

Frame(path, it) == [path |-> path, it |-> it]

Top == stack[Len(stack)]

\* the entries of the directory the innermost call iterates over
TopEntries == NodeAt(tree, Top.path).entries

\* the entry the innermost iterator stands at, as its status is queried
TopEntry == NodeAt(tree, Append(Top.path, Top.it))

\* the stack with the innermost iterator moved to the next entry
Advanced(stk) == [stk EXCEPT ![Len(stk)].it = @ + 1]

\* the tail of collectFiles: the count is written when files were found
FilesFound(found) ==
    IF found # <<>> THEN Append(cout, FilesFoundNote(Len(found))) ELSE cout

\* operator++ of the directory_iterator: it moves on or, when its readdir
\* fails, throws filesystem_error, which nothing in collectFiles catches
IncrementOutcomes == {"advanced", "EIO", "EBADF"}

\* the exception leaves collectFiles: its locals are gone
Thrown(what) ==
    /\ collect_pc' = "threw"
    /\ raised' = what
    /\ stack' = <<>>
    /\ files' = <<>>
    /\ cout' = cout

\* collectFiles without the branch for a regular file: a path that is not a
\* directory is reported and nothing is returned
CollectFilesDirectoriesOnly ==
    /\ collect_pc = "enter"
    /\ IF is_directory(Root)
       THEN IF OpenDirFails(Root)
            THEN /\ cerr' = Append(cerr, DeniedDirNote(RootPath))
                 /\ collect_pc' = "returned"
                 /\ UNCHANGED <<stack, files, cout, raised>>
            ELSE /\ stack' = <<Frame(RootPath, 1)>>
                 /\ collect_pc' = "walk"
                 /\ UNCHANGED <<files, cerr, cout, raised>>
       ELSE /\ cerr' = Append(cerr, RootDiagnostic(Root, RootPath))
            /\ files' = <<>>
            /\ collect_pc' = "returned"
            /\ UNCHANGED <<stack, cout, raised>>
    /\ UNCHANGED notCollect

\* collectFiles raising filesystem_error for a path that is neither a
\* directory nor a regular file
CollectFilesBadRootThrows ==
    /\ collect_pc = "enter"
    /\ IF is_directory(Root)
       THEN IF OpenDirFails(Root)
            THEN /\ cerr' = Append(cerr, DeniedDirNote(RootPath))
                 /\ collect_pc' = "returned"
                 /\ UNCHANGED <<stack, files, cout, raised>>
            ELSE /\ stack' = <<Frame(RootPath, 1)>>
                 /\ collect_pc' = "walk"
                 /\ UNCHANGED <<files, cerr, cout, raised>>
       ELSE IF is_regular_file(Root)
       THEN /\ files' = <<RootPath>>
            /\ cout' = FilesFound(<<RootPath>>)
            /\ collect_pc' = "returned"
            /\ UNCHANGED <<stack, cerr, raised>>
       ELSE Thrown("filesystem error: status") /\ cerr' = cerr
    /\ UNCHANGED notCollect

\* collectFiles up to the first entry: the kind of the path is looked at; a
\* directory is opened, a regular file is the whole result, anything else is
\* reported
CollectFiles ==
    /\ collect_pc = "enter"
    /\ IF is_directory(Root)
       THEN IF OpenDirFails(Root)
            THEN /\ cerr' = Append(cerr, DeniedDirNote(RootPath))
                 /\ collect_pc' = "returned"
                 /\ UNCHANGED <<stack, files, cout, raised>>
            ELSE /\ stack' = <<Frame(RootPath, 1)>>
                 /\ collect_pc' = "walk"
                 /\ UNCHANGED <<files, cerr, cout, raised>>
       ELSE IF is_regular_file(Root)
       THEN /\ files' = <<RootPath>>
            /\ cout' = FilesFound(<<RootPath>>)
            /\ collect_pc' = "returned"
            /\ UNCHANGED <<stack, cerr, raised>>
       ELSE /\ cerr' = Append(cerr, RootDiagnostic(Root, RootPath))
            /\ files' = <<>>
            /\ collect_pc' = "returned"
            /\ UNCHANGED <<stack, cout, raised>>
    /\ UNCHANGED notCollect

\* the loop without the recursive call: a directory entry is passed over
VisitDirectoryNoDescent ==
    /\ collect_pc = "walk"
    /\ Top.it <= Len(TopEntries)
    /\ is_directory(TopEntry)
    /\ stack' = Advanced(stack)
    /\ UNCHANGED <<notCollect, collect_pc, files, cerr, cout, raised>>

\* a directory that cannot be opened ends the whole walk: what was gathered
\* is returned at once
VisitDirectoryDeniedEndsWalk ==
    /\ collect_pc = "walk"
    /\ Top.it <= Len(TopEntries)
    /\ LET entry == TopEntry
           path  == Append(Top.path, Top.it)
       IN /\ is_directory(entry)
          /\ IF ~OpenDirFails(entry)
             THEN /\ stack' = Append(stack, Frame(path, 1))
                  /\ UNCHANGED <<collect_pc, files, cerr, cout, raised>>
             ELSE /\ cerr' = Append(cerr, DeniedDirNote(path))
                  /\ stack' = <<>>
                  /\ cout' = FilesFound(files)
                  /\ collect_pc' = "returned"
                  /\ UNCHANGED <<files, raised>>
    /\ UNCHANGED notCollect

\* one iteration of the loop of collectFilesRecursive on an entry that is a
\* directory: the recursive call opens it, or reports it and returns
VisitDirectory ==
    /\ collect_pc = "walk"
    /\ Top.it <= Len(TopEntries)
    /\ LET entry == TopEntry
           path  == Append(Top.path, Top.it)
       IN /\ is_directory(entry)
          /\ IF ~OpenDirFails(entry)
             THEN /\ stack' = Append(stack, Frame(path, 1))
                  /\ UNCHANGED <<collect_pc, files, cerr, cout, raised>>
             ELSE /\ cerr' = Append(cerr, DeniedDirNote(path))
                  /\ \E outcome \in IncrementOutcomes :
                        IF outcome = "advanced"
                        THEN /\ stack' = Advanced(stack)
                             /\ UNCHANGED <<collect_pc, files, cout, raised>>
                        ELSE Thrown(CannotAdvance(outcome))
    /\ UNCHANGED notCollect

\* the loop with the status queried through the throwing overloads: a failed
\* query raises filesystem_error
VisitEntryStatusThrows ==
    /\ collect_pc = "walk"
    /\ Top.it <= Len(TopEntries)
    /\ LET entry == TopEntry
           path  == Append(Top.path, Top.it)
       IN /\ ~is_directory(entry)
          /\ IF StatusError(entry) # ""
             THEN Thrown("filesystem error: status") /\ cerr' = cerr
             ELSE /\ files' = IF is_regular_file(entry)
                              THEN Append(files, path) ELSE files
                  /\ stack' = Advanced(stack)
                  /\ UNCHANGED <<collect_pc, cout, raised, cerr>>
    /\ UNCHANGED notCollect

\* the loop putting a regular file at the front of files instead of at the
\* back
VisitEntryPrepends ==
    /\ collect_pc = "walk"
    /\ Top.it <= Len(TopEntries)
    /\ LET entry == TopEntry
           path  == Append(Top.path, Top.it)
       IN /\ ~is_directory(entry)
          /\ cerr' = IF ~is_regular_file(entry) /\ StatusError(entry) # ""
                     THEN Append(cerr, EntryErrorNote(path, StatusError(entry)))
                     ELSE cerr
          /\ \E outcome \in IncrementOutcomes :
                IF outcome = "advanced"
                THEN /\ files' = IF is_regular_file(entry)
                                 THEN <<path>> \o files ELSE files
                     /\ stack' = Advanced(stack)
                     /\ UNCHANGED <<collect_pc, cout, raised>>
                ELSE Thrown(CannotAdvance(outcome))
    /\ UNCHANGED notCollect

\* one iteration of the loop on an entry that is not a directory: a regular
\* file is appended, a failed status query is reported, the rest is passed
\* over
VisitEntry ==
    /\ collect_pc = "walk"
    /\ Top.it <= Len(TopEntries)
    /\ LET entry == TopEntry
           path  == Append(Top.path, Top.it)
       IN /\ ~is_directory(entry)
          /\ cerr' = IF ~is_regular_file(entry) /\ StatusError(entry) # ""
                     THEN Append(cerr, EntryErrorNote(path, StatusError(entry)))
                     ELSE cerr
          /\ \E outcome \in IncrementOutcomes :
                IF outcome = "advanced"
                THEN /\ files' = IF is_regular_file(entry)
                                 THEN Append(files, path) ELSE files
                     /\ stack' = Advanced(stack)
                     /\ UNCHANGED <<collect_pc, cout, raised>>
                ELSE Thrown(CannotAdvance(outcome))
    /\ UNCHANGED notCollect

\* the loop of a recursive call ends and the call returns into the loop of
\* its caller, which moves to its next entry
ReturnFromDirectory ==
    /\ collect_pc = "walk"
    /\ Len(stack) >= 2
    /\ Top.it > Len(TopEntries)
    /\ \E outcome \in IncrementOutcomes :
          IF outcome = "advanced"
          THEN /\ stack' = Advanced(SubSeq(stack, 1, Len(stack) - 1))
               /\ UNCHANGED <<collect_pc, files, cout, raised>>
          ELSE Thrown(CannotAdvance(outcome))
    /\ UNCHANGED <<notCollect, cerr>>

\* the loop of the outermost call ends: collectFiles writes the count and
\* returns files
CollectReturn ==
    /\ collect_pc = "walk"
    /\ Len(stack) = 1
    /\ Top.it > Len(TopEntries)
    /\ stack' = <<>>
    /\ cout' = FilesFound(files)
    /\ collect_pc' = "returned"
    /\ UNCHANGED <<notCollect, cerr, files, raised>>

NextCollect ==
    \/ CollectFiles
    \/ VisitDirectory
    \/ VisitEntry
    \/ ReturnFromDirectory
    \/ CollectReturn

SpecCollect == InitCollect /\ [][NextCollect]_vars

\* ------------------------------------------- main from the try block on
\* a directory with two files
SmallDirectory ==
    Node("directory", <<Node("regular", <<>>), Node("regular", <<>>)>>)

\* a directory with files at two depths, a directory that cannot be opened
\* and two symlinks
LargeDirectory ==
    Node("directory",
         <<Node("regular", <<>>),
           Node("directory_denied", <<Node("regular", <<>>)>>),
           Node("directory", <<Node("symlink_to_regular", <<>>),
                               Node("symlink_dangling", <<>>)>>),
           Node("regular", <<>>)>>)

\* the paths the runs of main are given: no such path, a regular file, a
\* FIFO, an empty directory and the two directories
SampleRoots ==
    {Node("nonexistent", <<>>),
     Node("regular", <<>>),
     Node("fifo", <<>>),
     EmptyDirectory,
     SmallDirectory,
     LargeDirectory}

\* the roots of the runs whose pattern does not compile: all but the large
\* directory, since every thread that reaches the pattern goes through the
\* terminate handler write by write
MalformedRunRoots == SampleRoots \ {LargeDirectory}

SampleData == <<"a", LF, "A">>

\* the path of a regular file whose open is denied
UnreadablePath == <<4>>

\* the files of a tree as the scanner finds them: every path that resolves
\* to a regular file can be read, but for the one at UnreadablePath
TreeFS(root) ==
    [p \in {q \in PathsBelow(root, RootPath) : is_regular_file(NodeAt(root, q))}
        |-> IF p = UnreadablePath THEN EAcces ELSE File(SampleData)]

FilesystemErrorNote(what) ==
    [stream |-> "cerr", text |-> "Filesystem error", what |-> what]

\* main with the arguments parsed, about to call collectFiles(dirPath)
InitMain ==
    /\ useRegex \in BOOLEAN
    /\ query \in EngineQueries
    /\ root_links = 0
    /\ tree \in IF useRegex /\ ~RegexValid(query)
                THEN MalformedRunRoots ELSE SampleRoots
    /\ fs = TreeFS(tree)
    /\ hc \in 0..MaxThreads
    /\ ignoreCase \in BOOLEAN
    /\ all_files = <<>>
    /\ m_ignoreCase = FALSE
    /\ m_regexSearch = FALSE
    /\ m_threadCount = 1
    /\ pc = "collect"
    /\ CallIdle
    /\ cerr = <<>>
    /\ cout = <<>>
    /\ exit_status = "running"
    /\ ScanIdle
    /\ collect_pc = "enter"
    /\ stack = <<>>
    /\ files = <<>>
    /\ raised = ""
    /\ argv = ArgvOf(query, ignoreCase, useRegex)

\* auto all_files = CustomGrep::collectFiles(dirPath)
MainCollected ==
    /\ pc = "collect"
    /\ collect_pc = "returned"
    /\ all_files' = files
    /\ pc' = "construct"
    /\ UNCHANGED <<fs, hc, ignoreCase, useRegex, query, tree, root_links, argv, objVars,
                   callVars,
                   cerr, cout, exit_status, scanVars, collectVars>>

\* catch (const std::filesystem::filesystem_error& e): report, return 1
MainCatchFilesystemError ==
    /\ pc = "collect"
    /\ collect_pc = "threw"
    /\ cerr' = Append(cerr, FilesystemErrorNote(raised))
    /\ exit_status' = 1
    /\ pc' = "exited"
    /\ UNCHANGED <<envVars, objVars, callVars, cout, scanVars, collectVars>>

NextMain ==
    \/ NextCollect
    \/ MainCollected
    \/ MainCatchFilesystemError
    \/ Next

SpecMain == InitMain /\ [][NextMain]_vars

\* ------------------------------------------------- main from its first line
\* a token that is no flag of the program
OtherFlag == "--count"

FlagTokens == {IgnoreCaseFlag, RegexFlag, OtherFlag}

\* the most tokens a command line carries after the directory
MaxExtraArgs == 3

\* the command lines the runs are given: from the program name alone up to
\* a query, a directory and MaxExtraArgs further tokens
ArgVectors ==
    {<<ProgramName>>}
        \cup {<<ProgramName, q>> : q \in EngineQueries}
        \cup {<<ProgramName, q, DirPath>> \o t :
                 q \in EngineQueries, t \in StringsUpTo(FlagTokens, MaxExtraArgs)}

UsageNote ==
    [stream |-> "cerr", text |-> "Usage: grep_exec <query> <directory> [--ignore-case] [--regex]"]

UnexpectedArgumentNote(arg) ==
    [stream |-> "cerr", text |-> "Unexpected extra argument", arg |-> arg]

\* the process at the first line of main, the directory argument naming tree
InitCLI ==
    /\ argv \in ArgVectors
    /\ root_links = 0
    /\ tree \in IF /\ Len(argv) >= 2
                   /\ ~RegexValid(argv[2])
                   /\ \E i \in 1..Len(argv) : argv[i] = RegexFlag
                THEN MalformedRunRoots ELSE SampleRoots
    /\ fs = TreeFS(tree)
    /\ hc \in 0..MaxThreads
    /\ ignoreCase = FALSE
    /\ useRegex = FALSE
    /\ query = <<>>
    /\ all_files = <<>>
    /\ m_ignoreCase = FALSE
    /\ m_regexSearch = FALSE
    /\ m_threadCount = 1
    /\ pc = "args"
    /\ CallIdle
    /\ cerr = <<>>
    /\ cout = <<>>
    /\ exit_status = "running"
    /\ ScanIdle
    /\ CollectIdle

\* main returns 1 with a line on std::cerr
UsageExit(note) ==
    /\ cerr' = Append(cerr, note)
    /\ exit_status' = 1
    /\ pc' = "exited"
    /\ UNCHANGED <<ignoreCase, useRegex, query, collectVars>>

\* the arguments are accepted: main enters its try block and calls
\* collectFiles(dirPath)
ArgsAccepted(ic, re) ==
    /\ query' = Arg(1)
    /\ ignoreCase' = ic
    /\ useRegex' = re
    /\ pc' = "collect"
    /\ collect_pc' = "enter"
    /\ UNCHANGED <<cerr, exit_status, stack, files, raised>>

\* main up to its try block: the count of arguments is checked, then
\* --ignore-case is taken if it is next, then --regex if it is next, and a
\* token still left is an error
ParseArgs ==
    /\ pc = "args"
    /\ IF argc < 3 \/ argc > 5
       THEN UsageExit(UsageNote)
       ELSE LET ic == 3 < argc /\ Arg(3) = IgnoreCaseFlag
                afterIgnoreCase == IF ic THEN 4 ELSE 3
                re == afterIgnoreCase < argc /\ Arg(afterIgnoreCase) = RegexFlag
                argIndex == IF re THEN afterIgnoreCase + 1 ELSE afterIgnoreCase
            IN IF argIndex < argc
               THEN UsageExit(UnexpectedArgumentNote(Arg(argIndex)))
               ELSE ArgsAccepted(ic, re)
    /\ UNCHANGED <<fs, hc, all_files, tree, root_links, argv, objVars, callVars, cout,
                   scanVars>>

NextCLI ==
    \/ ParseArgs
    \/ NextMain

SpecCLI == InitCLI /\ [][NextCLI]_vars

\* ================================================================ properties
N == Len(all_files)

\* main is past its loop over the results and has returned 0
ExitedZero == pc = "exited" /\ exit_status = 0

\* parallelSearch has returned
Returned == pc = "returned" \/ ExitedZero

\* the launch loop has ended for a non-empty file list
Dispatched == N >= 1 /\ (pc \in {"join", "merge", "returned"} \/ ExitedZero)

InRange(t, f) == threads[t].start_idx <= f /\ f < threads[t].end_idx

\* the matches of one readable file, by the scanner's loop
ReadableScan(path) ==
    SearchLoop(LoopStart(fs[path].data), query, path, m_ignoreCase, m_regexSearch).results

\* what scanning one path yields in a search that returns
FileResult(path) == IF is_open(fs[path]) THEN ReadableScan(path) ELSE <<>>

\* the files lo .. hi-1 scanned one after another
RangeScan(lo, hi) == FlattenSeq([k \in 1..(hi - lo) |-> FileResult(FileAt(lo + k - 1))])

\* what the buffer of worker index i holds when the worker has finished
WorkerBuffer(i) ==
    IF i < Len(threads)
    THEN RangeScan(threads[i + 1].start_idx, threads[i + 1].end_idx)
    ELSE <<>>

\* C1: for N >= 1 files and W >= 1 workers, with chunkSize = ceil(N/W) and
\* worker i given [i*chunkSize, min((i+1)*chunkSize, N)), every file index
\* is in the range of exactly one dispatched worker, and the ranges are
\* disjoint, contiguous and ascending in worker index.
C1_PartitionCoversEachFileOnce ==
    Dispatched =>
        /\ m_threadCount >= 1
        /\ chunk_size * m_threadCount >= N
        /\ (chunk_size - 1) * m_threadCount < N
        /\ \A t \in 1..Len(threads) :
              /\ threads[t].thread_index = t - 1
              /\ threads[t].start_idx = (t - 1) * chunk_size
              /\ threads[t].end_idx = Min(t * chunk_size, N)
        /\ \A f \in 0..(N - 1) :
              Cardinality({t \in 1..Len(threads) : InRange(t, f)}) = 1
        /\ threads[1].start_idx = 0
        /\ threads[Len(threads)].end_idx = N
        /\ \A t \in 1..(Len(threads) - 1) :
              threads[t].end_idx = threads[t + 1].start_idx

\* three files over two workers: the ranges [0,2) and [2,3)
C1_Witness ==
    /\ Dispatched
    /\ N = 3
    /\ m_threadCount = 2
    /\ Len(threads) = 2
    /\ threads[1].end_idx = 2
    /\ threads[2].end_idx = 3

\* C2: the returned sequence is the concatenation of the worker buffers in
\* ascending worker index, whatever the order in which the workers ran and
\* finished; it is a function of the file list, query and configuration.
C2_MergedInWorkerIndexOrder ==
    /\ pc = "merge" =>
          /\ all_results = FlattenSeq([i \in 1..merge_index |-> WorkerBuffer(i - 1)])
          /\ \A i \in merge_index..(m_threadCount - 1) :
                local_results[i] = WorkerBuffer(i)
    /\ (Returned /\ N >= 1) =>
          all_results = FlattenSeq([i \in 1..m_threadCount |-> WorkerBuffer(i - 1)])

\* worker 1 finished before worker 0, both with matches, and the call returned
C2_Witness ==
    /\ pc = "returned"
    /\ Len(finish_order) >= 2
    /\ finish_order[1] = 1
    /\ WorkerBuffer(0) # <<>>
    /\ WorkerBuffer(1) # <<>>
    /\ WorkerBuffer(0) # WorkerBuffer(1)

\* position of a path in the file list
IndexOf(path) == CHOOSE k \in 1..N : all_files[k] = path

\* C3: for every worker count the result equals the files scanned one after
\* another in file-list order: matches are in file-list order and, within a
\* file, in ascending line number.
C3_EqualsSequentialScan ==
    Returned =>
        /\ all_results = RangeScan(0, N)
        /\ \A i, j \in 1..Len(all_results) :
              i < j =>
                 \/ IndexOf(all_results[i].path) < IndexOf(all_results[j].path)
                 \/ /\ all_results[i].path = all_results[j].path
                    /\ all_results[i].line_number < all_results[j].line_number

\* a search over several workers that returned matches from two files
C3_Witness ==
    /\ pc = "returned"
    /\ Len(threads) >= 2
    /\ \E i, j \in 1..Len(all_results) :
          /\ all_results[i].path # all_results[j].path
          /\ \E k \in 1..Len(all_results) :
                k # j /\ all_results[k].path = all_results[j].path

\* C4: parallelSearch has not returned, and the merge has not started, while
\* a worker it launched is still running: every thread is joined first.
C4_ReturnsAfterAllWorkers ==
    (pc = "merge" \/ Returned) =>
        /\ join_index = Len(threads)
        /\ \A t \in 1..Len(threads) : threads[t].state = "joined"

\* the call returned after joining three workers
C4_Witness ==
    /\ pc = "returned"
    /\ Len(threads) = 3
    /\ finish_order = <<2, 1, 0>>

AllJoined == \A t \in 1..Len(threads) : threads[t].state = "joined"

\* the step is a step of worker t's loop, or of the terminate handler it
\* has entered
WorkerStepped(t) ==
    /\ Len(threads') = Len(threads)
    /\ threads[t].state \in {"running", "terminating"}
    /\ \/ threads'[t].path_index # threads[t].path_index
       \/ threads'[t].pending # threads[t].pending

\* the step changes buffer i
BufferWritten(i) ==
    /\ DOMAIN local_results' = DOMAIN local_results
    /\ local_results'[i] # local_results[i]

\* the buffers belong to their workers until the merge: a buffer changes only
\* in a step of the running worker of that index, or in the merge after every
\* thread is joined, and all_results changes only in that merge
BuffersOwned ==
    /\ \A i \in DOMAIN local_results :
          BufferWritten(i) =>
             \/ /\ pc \in {"launch", "join"} \/ WritingNote \/ MainTerminating
                /\ \E t \in 1..Len(threads) :
                      /\ WorkerStepped(t)
                      /\ threads[t].thread_index = i
                      /\ threads[t].state = "running"
             \/ /\ pc = "merge"
                /\ merge_index = i
                /\ AllJoined
    /\ all_results' # all_results => (pc = "merge" /\ AllJoined)

\* C5 as claimed: in the scan phase the only mutable object a worker writes
\* is its own buffer (so a worker's step leaves std::cerr alone), no worker
\* touches another worker's buffer, and the merging thread touches no buffer
\* before all workers are joined.
C5_WorkerWritesOnlyItsBuffer ==
    [][/\ BuffersOwned
       /\ \A t \in 1..Len(threads) :
             WorkerStepped(t) => (cerr' = cerr /\ cout' = cout)]_vars

\* C5, amended: a worker writes its own buffer and, when a file of its
\* range cannot be opened, the pieces of one diagnostic, one per step, to
\* the process-wide std::cerr, where the pieces of another worker's
\* diagnostic can come between them; a worker that a malformed pattern has
\* taken into the terminate handler (C6) writes the pieces of the handler's
\* message there; no worker touches another worker's buffer and the merging
\* thread touches no buffer before all workers are joined.
C5_BufferOwnership ==
    [][/\ BuffersOwned
       /\ \A t \in 1..Len(threads) :
             WorkerStepped(t) =>
                LET path  == FileAt(threads[t].path_index)
                    diag  == OpenDiagnostic(fs[path], path)
                    piece == IF threads[t].pending = <<>>
                             THEN 1
                             ELSE Len(diag) - Len(threads[t].pending) + 1
                IN
                /\ cout' = cout
                /\ all_results' = all_results
                /\ IF threads[t].state = "terminating"
                   THEN /\ cerr' = Append(cerr, Head(threads[t].pending))
                        /\ local_results' = local_results
                   ELSE IF is_open(fs[path])
                   THEN cerr' = cerr
                   ELSE /\ cerr' = Append(cerr, diag[piece])
                        /\ local_results' = local_results]_vars

\* two workers, each with a file that cannot be opened, have written their
\* diagnostics at the same time: the second worker's line stands in the
\* middle of the first one's
C5_Witness ==
    /\ pc = "returned"
    /\ all_files = <<"missing.txt", "denied.txt">>
    /\ Len(threads) = 2
    /\ cerr = <<Piece("Could not open file ["),
                Piece("missing.txt"),
                Piece("]: "),
                Piece("Permission denied, cannot access file: "),
                Piece("denied.txt"),
                Piece(LF),
                Piece("No such file or directory"),
                Piece(LF)>>
    /\ all_results = <<>>

\* the pattern is malformed and the list has a file that can be opened, so
\* a worker reaches the std::regex constructor
MalformedRegexSearch ==
    /\ useRegex
    /\ ~RegexValid(query)
    /\ \E k \in 1..N : is_open(fs[all_files[k]])

\* C6: a search in regex mode with a malformed pattern surfaces the failure
\* to the caller of search, so the CLI reports an error and exits non-zero;
\* the process is not terminated from inside a worker and the failure is
\* not absorbed.
C6_RegexFailureSurfaced ==
    MalformedRegexSearch =>
        /\ pc # "terminated"
        /\ pc = "exited" => exit_status = 1

\* the diagnostics of the files of the list that cannot be opened, one
\* after the other in list order
AllOpenDiagnostics ==
    FlattenSeq([k \in 1..N |->
        IF is_open(fs[all_files[k]])
        THEN <<>> ELSE OpenDiagnostic(fs[all_files[k]], all_files[k])])

\* C8: a file that cannot be opened contributes no match and one diagnostic
\* and raises nothing; every other file, in the same worker's range and in
\* the others, is still scanned and its matches are in the result.  The
\* diagnostic is all there, its pieces in order, and nothing else is written;
\* the process ends only where a file that could be opened is scanned or a
\* thread could not be created.
C8_UnopenableFileIsSkipped ==
    /\ \A t \in 1..Len(threads) :
          threads[t].state = "terminating" =>
             /\ threads[t].path_index < threads[t].end_idx
             /\ is_open(fs[FileAt(threads[t].path_index)])
    /\ pc = "terminated" =>
          \/ \E t \in 1..Len(threads) : threads[t].state = "terminating"
          \/ raised = ThreadError
    /\ \A k \in 1..N :
          LET named == {i \in 1..Len(cerr) : cerr[i] = Piece(all_files[k])}
          IN /\ Cardinality(named) <= 1
             /\ named # {} => ~is_open(fs[all_files[k]])
    /\ (Returned /\ N >= 1) =>
          /\ \A k \in 1..N :
                ~is_open(fs[all_files[k]]) =>
                   /\ IsSublist(OpenDiagnostic(fs[all_files[k]], all_files[k]), cerr)
                   /\ \A i \in 1..Len(all_results) :
                         all_results[i].path # all_files[k]
          /\ Len(cerr) = Len(AllOpenDiagnostics)
          /\ all_results =
                FlattenSeq([k \in 1..N |->
                    IF is_open(fs[all_files[k]])
                    THEN ReadableScan(all_files[k]) ELSE <<>>])

\* one worker had an unopenable file and then a readable one in its range;
\* the search returned the readable file's matches and one diagnostic
C8_Witness ==
    /\ pc = "returned"
    /\ N = 3
    /\ m_threadCount = 2
    /\ ~is_open(fs[all_files[1]])
    /\ is_open(fs[all_files[2]])
    /\ is_open(fs[all_files[3]])
    /\ cerr = OpenDiagnostic(fs[all_files[1]], all_files[1])
    /\ \E i, j \in 1..Len(all_results) :
          all_results[i].path = all_files[2] /\ all_results[j].path = all_files[3]

\* C9: on an empty file list parallelSearch returns an empty result at once,
\* for every query and configuration: no worker is dispatched, no file is
\* opened, the informational note is written and nothing is raised.
C9_EmptyListReturnsEmpty ==
    all_files = <<>> =>
        /\ pc \in {"construct", "call", "returned", "exited"}
        /\ threads = <<>>
        /\ local_results = <<>>
        /\ all_results = <<>>
        /\ cout = <<>>
        /\ cerr = IF Returned THEN <<NoFilesNote>> ELSE <<>>
        /\ exit_status = IF pc = "exited" THEN 0 ELSE "running"

\* a regex search with a malformed pattern over no files has returned
C9_Witness ==
    /\ all_files = <<>>
    /\ pc = "returned"
    /\ m_regexSearch
    /\ ~RegexValid(query)
    /\ cerr = <<NoFilesNote>>

\* ----------------------------------------------- the single-file scanner
ScanEnded == scan_pc \in {"returned", "threw"}

\* C7 as claimed: a scan in regex mode with an invalid pattern ends in a
\* propagated failure for every path argument and never returns a sequence.
C7_InvalidPatternAlwaysThrows ==
    (m_regexSearch /\ ~RegexValid(query) /\ ScanEnded) => scan_pc = "threw"

\* C7, amended: a scan in regex mode with an invalid pattern of a path that
\* can be opened ends in a propagated failure: it returns no sequence and
\* matches no line, literally or otherwise.  On a path that cannot be opened
\* the pattern is never compiled: the scan reports the failed open and
\* returns the empty sequence.
C7_InvalidPatternThrowsOnceOpened ==
    (m_regexSearch /\ ~RegexValid(query)) =>
        /\ scan_pc # "loop"
        /\ lineNumber = 0
        /\ results = <<>>
        /\ scan_pc = "threw" => (is_open(fs[scan_path]) /\ cerr = <<>>)
        /\ scan_pc = "returned" =>
              /\ ~is_open(fs[scan_path])
              /\ cerr = OpenDiagnostic(fs[scan_path], scan_path)

\* the constructor threw on a two-character pattern over a file whose line
\* holds the pattern's letter
C7_Witness ==
    /\ scan_pc = "threw"
    /\ query = <<"(", "a">>
    /\ fs[scan_path] = File(<<"a", LF>>)

\* the lines of a file, by the positions of its line terminators
LFs(s) == {i \in 1..Len(s) : s[i] = LF}

NumLines(s) ==
    Cardinality(LFs(s)) + (IF s # <<>> /\ s[Len(s)] # LF THEN 1 ELSE 0)

\* position of the k-th terminator; 0 for k = 0, one past the end when the
\* file has fewer
NthLF(s, k) ==
    IF k = 0 THEN 0
    ELSE IF k > Cardinality(LFs(s)) THEN Len(s) + 1
    ELSE CHOOSE i \in LFs(s) : Cardinality({j \in LFs(s) : j <= i}) = k

\* the text of the k-th line, without its terminator
LineAt(s, k) == SubSeq(s, NthLF(s, k - 1) + 1, NthLF(s, k) - 1)

WithoutCR(l) ==
    IF Len(l) > 0 /\ l[Len(l)] = CR THEN [i \in 1..(Len(l) - 1) |-> l[i]] ELSE l

\* C10: in both strategies the counter starts at 1 and goes up by one per
\* line read, matching or not: a Match's line_number is the 1-based position
\* of its line among all lines of the file, and the line numbers of a result
\* are strictly increasing.
C10_LineNumbersArePositions ==
    (scan_pc \in {"loop", "returned"} /\ is_open(fs[scan_path])) =>
        LET data == fs[scan_path].data IN
        /\ lineNumber = NumLines(data) - NumLines(ifs)
        /\ scan_pc = "returned" => lineNumber = NumLines(data)
        /\ \A k \in 1..Len(results) :
              /\ results[k].line_number \in 1..lineNumber
              /\ results[k].line = WithoutCR(LineAt(data, results[k].line_number))
        /\ \A j, k \in 1..Len(results) :
              j < k => results[j].line_number < results[k].line_number

\* a literal scan whose first line did not match and whose second line
\* did
C10_Witness ==
    /\ scan_pc = "returned"
    /\ ~m_regexSearch
    /\ lineNumber >= 2
    /\ Len(results) = 1
    /\ results[1].line_number = 2

\* ------------------------------------------------- what the scanner matches
\* q stands in l right after the first i characters
OccursAt(l, q, i) ==
    /\ i + Len(q) <= Len(l)
    /\ \A k \in 1..Len(q) : l[i + k] = q[k]

Occurs(l, q) == \E i \in 0..Len(l) : OccursAt(l, q, i)

Occurrences(l, q) == Cardinality({i \in 0..Len(l) : OccursAt(l, q, i)})

StartsWith(l, p) == OccursAt(l, p, 0)

EndsWith(l, p) == Len(p) <= Len(l) /\ OccursAt(l, p, Len(l) - Len(p))

CaseFold(s) == [i \in 1..Len(s) |-> IF s[i] = "A" THEN "a" ELSE s[i]]

LettersOnly(p) == \A i \in 1..Len(p) : p[i] \in {"a", "A"}

\* the scan of a file that could be opened has returned
ScanReturned == scan_pc = "returned" /\ is_open(fs[scan_path])

ScannedData == fs[scan_path].data

\* the text of the k-th line of the scanned file: up to its terminator, one
\* trailing carriage return taken off
LineText(k) == WithoutCR(LineAt(ScannedData, k))

\* the positions in results of the matches of line k
MatchesOfLine(k) == {j \in 1..Len(results) : results[j].line_number = k}

\* C11: a case-sensitive literal scan returns exactly one Match for each
\* line that contains the query as an exact substring, however often the
\* query occurs in the line, and none for any other line; each Match carries
\* the path of the scanned file.
C11_OneMatchPerContainingLine ==
    (ScanReturned /\ ~m_regexSearch /\ ~m_ignoreCase) =>
        /\ \A k \in 1..NumLines(ScannedData) :
              Cardinality(MatchesOfLine(k)) =
                 IF Occurs(LineText(k), query) THEN 1 ELSE 0
        /\ \A j \in 1..Len(results) :
              /\ results[j].path = scan_path
              /\ results[j].line_number \in 1..NumLines(ScannedData)

\* an empty first line and a second line that holds the query twice: one
\* Match, for line 2
C11_Witness ==
    /\ ScanReturned
    /\ ~m_regexSearch
    /\ ~m_ignoreCase
    /\ query = <<"a">>
    /\ ScannedData = <<LF, "a", "a">>
    /\ Occurrences(LineText(2), query) = 2
    /\ results = <<Match(scan_path, 2, <<"a", "a">>)>>

\* C12: in a case-insensitive literal scan a line matches exactly when the
\* lowercased line contains the lowercased query; the result is the same
\* for every query that differs from this one only in letter case; the
\* line stored in a Match is the original text, casing unchanged.
C12_CaseInsensitiveLiteral ==
    (ScanReturned /\ ~m_regexSearch /\ m_ignoreCase) =>
        /\ \A k \in 1..NumLines(ScannedData) :
              Cardinality(MatchesOfLine(k)) =
                 IF Occurs(CaseFold(LineText(k)), CaseFold(query)) THEN 1 ELSE 0
        /\ \A j \in 1..Len(results) :
              /\ results[j].line_number \in 1..NumLines(ScannedData)
              /\ results[j].line = LineText(results[j].line_number)
        /\ \A q2 \in StringsUpTo(QueryAlphabet, MaxQueryLen) :
              CaseFold(q2) = CaseFold(query) =>
                 searchInFile(fs, scan_path, q2, TRUE, FALSE).results = results

\* an upper-case query over a lower-case line and an upper-case line: both
\* match and both are stored as they stand in the file
C12_Witness ==
    /\ ScanReturned
    /\ ~m_regexSearch
    /\ m_ignoreCase
    /\ query = <<"A">>
    /\ results = <<Match(scan_path, 1, <<"a">>), Match(scan_path, 2, <<"A">>)>>

\* the test the claims put on a line's text, for the queries they speak of:
\* a literal query, a regex of letters, ^p and p$ with p of letters
Covered ==
    \/ ~m_regexSearch
    \/ LettersOnly(query)
    \/ query # <<>> /\ query[1] = "^" /\ LettersOnly(Tail(query))
    \/ query # <<>> /\ query[Len(query)] = "$"
                    /\ LettersOnly(SubSeq(query, 1, Len(query) - 1))

PatternHit(text) ==
    LET t == IF m_ignoreCase THEN CaseFold(text) ELSE text
        q == IF m_ignoreCase THEN CaseFold(query) ELSE query
    IN IF ~m_regexSearch \/ LettersOnly(q) THEN Occurs(t, q)
       ELSE IF q[1] = "^" /\ LettersOnly(Tail(q)) THEN StartsWith(t, Tail(q))
       ELSE EndsWith(t, SubSeq(q, 1, Len(q) - 1))

\* every terminator of the file is CR LF
CRLFEndings(d) == \A i \in LFs(d) : i > 1 /\ d[i - 1] = CR

\* every terminator of the file is a bare LF
LFEndings(d) == \A i \in LFs(d) : i = 1 \/ d[i - 1] # CR

\* the file with each CR LF replaced by LF
RECURSIVE ToLF(_)
ToLF(d) ==
    IF d = <<>> THEN <<>>
    ELSE IF Len(d) >= 2 /\ d[1] = CR /\ d[2] = LF
    THEN <<LF>> \o ToLF(SubSeq(d, 3, Len(d)))
    ELSE <<d[1]>> \o ToLF(Tail(d))

\* the k-th line with a carriage return taken off only where the line's
\* terminator follows it
TerminatedLineText(k) ==
    IF k <= Cardinality(LFs(ScannedData))
    THEN WithoutCR(LineAt(ScannedData, k))
    ELSE LineAt(ScannedData, k)

\* C13 as claimed: the text stored in a Match is the file's line with its
\* terminator and a carriage return immediately before that terminator
\* removed, and nothing else changed.
C13_CRBeforeTerminatorOnly ==
    ScanReturned =>
        \A j \in 1..Len(results) :
            results[j].line = TerminatedLineText(results[j].line_number)

\* C13, amended: the text stored in a Match, and the text the match test is
\* applied to, is the file's line with its terminator and one trailing
\* carriage return removed, whether a terminator follows that carriage
\* return or the file ends with it, and nothing else changed; a file with
\* CR LF endings and the same file with LF endings give the same matches.
C13_OneTrailingCRStripped ==
    ScanReturned =>
        /\ \A j \in 1..Len(results) :
              results[j].line = LineText(results[j].line_number)
        /\ Covered =>
              \A k \in 1..NumLines(ScannedData) :
                 (MatchesOfLine(k) # {}) <=> PatternHit(LineText(k))
        /\ (CRLFEndings(ScannedData) /\ LFEndings(ToLF(ScannedData))) =>
              results =
                 searchInFile([fs EXCEPT ![scan_path] = File(ToLF(ScannedData))],
                              scan_path, query, m_ignoreCase, m_regexSearch).results

\* a file with one CR LF line: the regex a$ matches it and the Match holds
\* the line without the carriage return
C13_Witness ==
    /\ ScanReturned
    /\ m_regexSearch
    /\ query = <<"a", "$">>
    /\ ScannedData = <<"a", CR, LF>>
    /\ ToLF(ScannedData) = <<"a", LF>>
    /\ results = <<Match(scan_path, 1, <<"a">>)>>

\* C14: in regex mode a line matches when the pattern is found anywhere in
\* it, not only when the pattern matches the whole line: ^p matches exactly
\* the lines that start with p, p$ exactly the lines that end with p, and
\* with ignoreCase the letters of p match in either case.
C14_RegexFoundAnywhere ==
    (ScanReturned /\ m_regexSearch /\ Covered) =>
        /\ \A k \in 1..NumLines(ScannedData) :
              Cardinality(MatchesOfLine(k)) =
                 IF PatternHit(LineText(k)) THEN 1 ELSE 0
        /\ \A j \in 1..Len(results) :
              results[j].line_number \in 1..NumLines(ScannedData)

\* ^a with ignoreCase over an empty line and the line "Aa": the second line
\* matches at its start, in the other case, and is longer than the pattern
C14_Witness ==
    /\ ScanReturned
    /\ m_regexSearch
    /\ m_ignoreCase
    /\ query = <<"^", "a">>
    /\ ScannedData = <<LF, "A", "a">>
    /\ results = <<Match(scan_path, 2, <<"A", "a">>)>>

\* ------------------------------------------------------- the file enumerator
\* every path of the tree, the root's included
AllPaths == PathsBelow(tree, RootPath)

KindAt(p) == NodeAt(tree, p).kind

IsPrefix(q, p) == Len(q) <= Len(p) /\ SubSeq(p, 1, Len(q)) = q

\* p lies below the root and every component on the way to it is a
\* directory, or a symbolic link to one, that can be opened
Reachable(p) ==
    \A n \in 0..(Len(p) - 1) :
        KindAt(SubSeq(p, 1, n)) \in {"directory", "symlink_to_directory"}

\* how often p stands in files
TimesCollected(p) == Cardinality({i \in 1..Len(files) : files[i] = p})

\* how often the diagnostic d was written
TimesReported(d) == Cardinality({i \in 1..Len(cerr) : cerr[i] = d})

\* the walk of a directory has returned
WalkReturned == collect_pc = "returned" /\ is_directory(tree)

\* p lies below the root, every component on the way to it is a directory
\* itself, not a link to one, and can be opened
ReachableByDirectories(p) ==
    \A n \in 0..(Len(p) - 1) : KindAt(SubSeq(p, 1, n)) = "directory"

\* C15 as stated: for every directory tree, collectFiles on the root
\* directory returns exactly the regular files reachable from the root
\* without crossing a directory that cannot be opened, at any nesting depth,
\* each exactly once; a symbolic link is neither a regular file nor a
\* directory.
C15_ExactlyReachableRegularFiles ==
    WalkReturned =>
        /\ \A i \in 1..Len(files) : files[i] \in AllPaths
        /\ \A p \in AllPaths :
              TimesCollected(p) =
                 IF p # RootPath /\ KindAt(p) = "regular" /\ ReachableByDirectories(p)
                 THEN 1 ELSE 0

\* C15, amended: collectFiles on a root directory returns exactly the paths
\* below the root that resolve to a regular file, the file itself or a
\* symbolic link to one, and are reached through directories and symbolic
\* links to directories that can be opened, at any nesting depth, each path
\* exactly once; so a file that a link makes reachable under several paths
\* is returned once for each of them, and below a link that leads back
\* into the tree once for each path whose resolution follows no more than
\* MaxSymlinks links.
C15_ExactlyPathsOfRegularFiles ==
    WalkReturned =>
        /\ \A i \in 1..Len(files) : files[i] \in AllPaths
        /\ \A p \in AllPaths :
              TimesCollected(p) =
                 IF p # RootPath /\ is_regular_file(NodeAt(tree, p)) /\ Reachable(p)
                 THEN 1 ELSE 0
        /\ \A p \in AllPaths :
              (p # RootPath /\ Links(tree, p) > MaxSymlinks /\ Reachable(p)) =>
                 TimesReported(EntryErrorNote(p, StatusError(TooManyLinks))) = 1

\* the n-th path below the link to the directory itself: n times the link,
\* then the entry at place i
BelowLinks(link, n, i) == [k \in 1..(n + 1) |-> IF k <= n THEN link ELSE i]

\* a directory with one regular file and a link to the directory itself,
\* given by a path that goes through DeepRootLinks links: the file is
\* returned under its own path and under every path that goes through the
\* link until MaxSymlinks links are followed in all, and the path with one
\* link more is reported
C15_Witness ==
    /\ WalkReturned
    /\ root_links = DeepRootLinks
    /\ tree = Node("directory", <<Node("regular", <<>>), LinkToParent>>)
    /\ files = [n \in 1..(MaxSymlinks - root_links + 1) |-> BelowLinks(2, n - 1, 1)]
    /\ cerr = <<EntryErrorNote(BelowLinks(2, MaxSymlinks - root_links, 2),
                               "Too many levels of symbolic links")>>

\* C16: a directory inside the tree that cannot be opened gets one
\* "Permission denied" diagnostic, nothing below it is entered, collected or
\* reported, and every entry after it in its parent and in every ancestor is
\* still visited: the walk goes on to its end.
C16_DeniedSubtreeSkipped ==
    /\ \A p \in AllPaths :
          KindAt(p) = "directory_denied" =>
             /\ \A k \in 1..Len(stack) : ~IsPrefix(p, stack[k].path)
             /\ \A i \in 1..Len(files) : ~IsPrefix(p, files[i])
             /\ \A i \in 1..Len(cerr) :
                   IsPrefix(p, cerr[i].path) => cerr[i] = DeniedDirNote(p)
             /\ TimesReported(DeniedDirNote(p)) <= 1
    /\ \A i \in 1..Len(cerr) :
          cerr[i].text = DeniedDirNote(RootPath).text =>
             KindAt(cerr[i].path) = "directory_denied"
    /\ WalkReturned =>
          \A p \in AllPaths :
             Reachable(p) =>
                /\ KindAt(p) = "directory_denied" =>
                      TimesReported(DeniedDirNote(p)) = 1
                /\ (p # RootPath /\ is_regular_file(NodeAt(tree, p))) =>
                      TimesCollected(p) = 1

\* a denied directory with a file in it, then a directory with a file: one
\* diagnostic, and the later file is the result
C16_Witness ==
    /\ WalkReturned
    /\ tree = Node("directory",
                   <<Node("directory_denied", <<Node("regular", <<>>)>>),
                     Node("regular", <<>>)>>)
    /\ cerr = <<DeniedDirNote(<<1>>)>>
    /\ files = << <<2>> >>

\* the failures of the enumeration that were met are reported and the files
\* that could be reached are returned
FailuresReported ==
    /\ (~is_directory(tree) /\ ~is_regular_file(tree)) =>
          /\ files = <<>>
          /\ cerr = <<RootDiagnostic(tree, RootPath)>>
    /\ is_directory(tree) =>
          /\ \A p \in AllPaths :
                Reachable(p) =>
                   /\ KindAt(p) = "directory_denied" =>
                         TimesReported(DeniedDirNote(p)) = 1
                   /\ (p # RootPath /\ StatusError(NodeAt(tree, p)) # "") =>
                         TimesReported(EntryErrorNote(p, StatusError(NodeAt(tree, p)))) = 1
                   /\ (p # RootPath /\ is_regular_file(NodeAt(tree, p))) =>
                         TimesCollected(p) = 1
          /\ Len(cerr) =
                Cardinality({p \in AllPaths :
                    /\ Reachable(p)
                    /\ \/ KindAt(p) = "directory_denied"
                       \/ p # RootPath /\ StatusError(NodeAt(tree, p)) # ""})

\* C17 as claimed: collectFiles never raises; every enumeration failure,
\* a failure while advancing the iteration included, is reported locally
\* and the call returns the files gathered so far.
C17_CollectFilesNeverRaises ==
    /\ collect_pc # "threw"
    /\ collect_pc = "returned" => FailuresReported

\* C17, amended: a directory that cannot be opened, an entry whose status
\* cannot be read and a bad root are reported locally and the call returns
\* the files gathered; a failure while advancing the directory iteration is
\* not handled: it leaves collectFiles as filesystem_error and the files
\* gathered so far are lost.  Nothing else raises.
C17_RaisesOnlyWhenAdvanceFails ==
    /\ collect_pc = "returned" => FailuresReported
    /\ collect_pc # "threw" => raised = ""
    /\ collect_pc = "threw" =>
          /\ raised \in {CannotAdvance(e) : e \in IncrementOutcomes \ {"advanced"}}
          /\ files = <<>>
          /\ is_directory(tree)
          /\ ~OpenDirFails(tree)
          /\ tree.entries # <<>>

\* a denied directory, a dangling symlink and a file: two diagnostics, the
\* file returned
C17_Witness ==
    /\ collect_pc = "returned"
    /\ raised = ""
    /\ tree = Node("directory",
                   <<Node("directory_denied", <<>>),
                     Node("symlink_dangling", <<>>),
                     Node("regular", <<>>)>>)
    /\ cerr = <<DeniedDirNote(<<1>>),
                EntryErrorNote(<<2>>, "No such file or directory")>>
    /\ files = << <<3>> >>

\* C19: collectFiles on a path that is a regular file returns a list with
\* exactly one element, that path, and walks no directory.
C19_RegularFileRootIsTheResult ==
    is_regular_file(tree) =>
        /\ collect_pc \in {"enter", "returned"}
        /\ stack = <<>>
        /\ cerr = <<>>
        /\ collect_pc = "returned" =>
              /\ files = <<RootPath>>
              /\ cout = <<FilesFoundNote(1)>>

C19_Witness ==
    /\ tree = Node("regular", <<>>)
    /\ collect_pc = "returned"
    /\ files = <<RootPath>>

\* the path itself is a symlink
IsSymlink(p) ==
    KindAt(p) \in {"symlink_to_regular", "symlink_to_directory", "symlink_dangling"}

\* the step-independent trace of an entry: it was recursed into, appended,
\* or reported
Entered(p) == \E k \in 1..Len(stack) : stack[k].path = p
Diagnosed(p) == \E i \in 1..Len(cerr) : cerr[i].path = p

\* C20 as claimed: an entry that is not itself a directory or a regular
\* file (a symlink, a device, a socket) is skipped without diagnostic, never
\* recursed into and never appended; no entry of the result is a directory.
C20_SymlinksAndSpecialsSkipped ==
    /\ \A p \in AllPaths \ {RootPath} :
          (IsSymlink(p) \/ KindAt(p) = "fifo") =>
             /\ ~Entered(p)
             /\ ~Diagnosed(p)
             /\ TimesCollected(p) = 0
    /\ \A i \in 1..Len(files) : ~is_directory(NodeAt(tree, files[i]))

\* C20, amended: an entry is classified by what its path resolves to,
\* symlinks followed.  An entry that resolves to neither a directory nor a
\* regular file (a device, a socket, a FIFO) is skipped without diagnostic,
\* never recursed into and never appended.  A symlink to a regular file is
\* appended, a symlink to a directory is recursed into, a symlink whose
\* target is missing is skipped with an "Error accessing entry" diagnostic.
\* No entry of the result is a directory or resolves to one.
C20_ClassifiedByResolvedKind ==
    /\ \A p \in AllPaths \ {RootPath} :
          /\ KindAt(p) = "fifo" =>
                ~Entered(p) /\ ~Diagnosed(p) /\ TimesCollected(p) = 0
          /\ KindAt(p) = "symlink_dangling" =>
                ~Entered(p) /\ TimesCollected(p) = 0
          /\ KindAt(p) = "symlink_to_regular" => ~Entered(p) /\ ~Diagnosed(p)
          /\ KindAt(p) = "symlink_to_directory" =>
                ~Diagnosed(p) /\ TimesCollected(p) = 0
          /\ (WalkReturned /\ Reachable(p)) =>
                /\ KindAt(p) = "symlink_to_regular" => TimesCollected(p) = 1
                /\ KindAt(p) = "symlink_dangling" =>
                      TimesReported(EntryErrorNote(p, "No such file or directory")) = 1
                /\ KindAt(p) = "symlink_to_directory" =>
                      \A i \in 1..Len(NodeAt(tree, p).entries) :
                         is_regular_file(NodeAt(tree, Append(p, i))) =>
                            TimesCollected(Append(p, i)) = 1
    /\ \A i \in 1..Len(files) : ~is_directory(NodeAt(tree, files[i]))

\* a FIFO, a symlink to a file and a dangling symlink: the FIFO leaves no
\* trace, the symlink to the file is the result, the dangling one is
\* reported
C20_Witness ==
    /\ WalkReturned
    /\ tree = Node("directory",
                   <<Node("fifo", <<>>),
                     Node("symlink_to_regular", <<>>),
                     Node("symlink_dangling", <<>>)>>)
    /\ files = << <<2>> >>
    /\ cerr = <<EntryErrorNote(<<3>>, "No such file or directory")>>

\* the diagnostic tells that the path does not exist
ReportsNonexistence(d) ==
    /\ d.stream = "cerr"
    /\ d.path = RootPath
    /\ \/ d = DoesNotExistNote(RootPath)
       \/ d = PathErrorNote(RootPath, "No such file or directory")

\* C18: collectFiles on a path that does not exist returns the empty list,
\* reports that the path does not exist and raises nothing; the search that
\* follows over that list returns no matches and the run ends with status 0.
C18_NonexistentRootIsNotFatal ==
    tree.kind = "nonexistent" =>
        /\ collect_pc \in {"enter", "returned"}
        /\ raised = ""
        /\ stack = <<>>
        /\ files = <<>>
        /\ collect_pc = "returned" =>
              /\ Len(cerr) >= 1
              /\ ReportsNonexistence(cerr[1])
        /\ all_files = <<>>
        /\ threads = <<>>
        /\ all_results = <<>>
        /\ cout = <<>>
        /\ pc \in {"collect", "construct", "call", "returned", "exited"}
        /\ Returned => cerr = <<cerr[1], NoFilesNote>>
        /\ exit_status = IF pc = "exited" THEN 0 ELSE "running"

\* a regex run with a malformed pattern on a path that does not exist has
\* ended with status 0 and printed nothing
C18_Witness ==
    /\ tree.kind = "nonexistent"
    /\ pc = "exited"
    /\ exit_status = 0
    /\ useRegex
    /\ ~RegexValid(query)
    /\ cout = <<>>
    /\ cerr = <<PathErrorNote(RootPath, "No such file or directory"), NoFilesNote>>

\* ---------------------------------------------------------------- C21
\* p is met before q by a depth-first walk that takes the entries of every
\* directory in iteration order: at the first place where the two paths
\* part, p takes the earlier entry
PathBefore(p, q) ==
    \E k \in 1..Min(Len(p), Len(q)) :
        /\ SubSeq(p, 1, k - 1) = SubSeq(q, 1, k - 1)
        /\ p[k] < q[k]

ParentOf(p) == SubSeq(p, 1, Len(p) - 1)

\* C21 as stated: the files of a directory come before the files of its
\* subdirectories, whatever the place of the subdirectory among the entries.
C21_ParentFilesBeforeSubdirectoryFiles ==
    \A i, j \in 1..Len(files) :
        /\ IsPrefix(ParentOf(files[j]), files[i])
        /\ Len(files[i]) > Len(files[j])
        => j < i

\* C21: files is in depth-first traversal order at every point of the walk
\* and on return: of two collected files, the one below the earlier entry of
\* the directory where their paths part stands first, so the files below a
\* subdirectory stand together at the place of that subdirectory among its
\* siblings, after the files of the entries before it and before the files
\* of the entries after it; nothing is sorted.
C21_DepthFirstIterationOrder ==
    \A i, j \in 1..Len(files) : i < j => PathBefore(files[i], files[j])

\* a walk has returned the file of a subdirectory ahead of a file of the
\* directory itself, because the iteration gave the subdirectory first
C21_Witness ==
    /\ collect_pc = "returned"
    /\ tree = Node("directory", <<Node("directory", <<Node("regular", <<>>)>>),
                                  Node("regular", <<>>)>>)
    /\ files = << <<1, 1>>, <<2>> >>

\* ---------------------------------------------------------------- C22
\* C22: std::cout holds nothing but match lines, which after a run that
\* ended with 0 are the lines of the results in result order, and every
\* diagnostic and notice, the count of files and the note on an idle worker
\* included, is on std::cerr.
C22_StdoutCarriesOnlyMatchLines ==
    /\ \A i \in 1..Len(cout) : cout[i].text = "match"
    /\ \A i \in 1..Len(cerr) : cerr[i].stream = "cerr"
    /\ (pc = "exited" /\ exit_status = 0) =>
          cout = [i \in 1..Len(all_results) |-> MatchLine(all_results[i])]

\* ---------------------------------------------------------------- C23
\* the command lines the usage line does not allow: fewer than two
\* positional arguments, or tokens after the directory that are not
\* --ignore-case, --regex or the two in this order
AllowedFlagTails ==
    {<<>>, <<IgnoreCaseFlag>>, <<RegexFlag>>, <<IgnoreCaseFlag, RegexFlag>>}

UsageError == argc < 3 \/ SubSeq(argv, 4, argc) \notin AllowedFlagTails

\* collectFiles was left by a filesystem_error: the root path could not be
\* examined or a directory could not be read on
EnumerationFailed == collect_pc = "threw"

\* threads.emplace_back threw std::system_error: a thread of the search
\* could not be created
ThreadCreationFailed == raised = ThreadError

\* a failure while enumeration or search was set up, named by what failed
SetupFailure == EnumerationFailed \/ ThreadCreationFailed

Finished == pc \in {"exited", "terminated"}

\* a run given a command line with a usage error never calls collectFiles,
\* constructs no CustomGrep, starts no search, writes nothing to std::cout
\* and ends with status 1 after one line on std::cerr
UsageErrorExits ==
    UsageError =>
       /\ pc \in {"args", "exited"}
       /\ collect_pc = "idle"
       /\ all_files = <<>>
       /\ threads = <<>>
       /\ scan_pc = "idle"
       /\ cout = <<>>
       /\ pc = "exited" => exit_status = 1 /\ Len(cerr) = 1

\* C23: a run given a command line with a usage error ends with status 1
\* without enumeration or search, and every run that has ended and had
\* neither a usage error nor a setup failure has status 0, whether or not
\* a match was found.
C23_ExitStatusByOutcome ==
    /\ UsageErrorExits
    /\ (Finished /\ ~UsageError /\ ~SetupFailure) => ExitedZero

\* what the exit status is in every run that has ended: 0 exactly when
\* there was no usage error, no setup failure and no regex search with a
\* malformed pattern that got to open a file; 1 after a usage error, after
\* a failed enumeration and after the failure to create the first thread;
\* SIGABRT after the failure to create a later thread and after the
\* malformed pattern (C6)
ExitStatusByCause ==
    /\ UsageErrorExits
    /\ Finished =>
          /\ ExitedZero <=> (~UsageError /\ ~SetupFailure /\ ~MalformedRegexSearch)
          /\ EnumerationFailed => (pc = "exited" /\ exit_status = 1)
          /\ (MalformedRegexSearch /\ ~ThreadCreationFailed) =>
                (pc = "terminated" /\ exit_status = "SIGABRT")
          /\ pc = "exited" => exit_status \in {0, 1}
          /\ pc = "terminated" =>
                /\ exit_status = "SIGABRT"
                /\ MalformedRegexSearch \/ (ThreadCreationFailed /\ threads # <<>>)

\* ---------------------------------------------------------------- C24
\* C24 as stated: the worker count is at least 1, it is set by the
\* constructor and no step after the construction changes it, and
\* parallelSearch takes its early return only for an empty file list.
C24_SetOnceInConstructor ==
    [][/\ m_threadCount >= 1
       /\ m_threadCount' >= 1
       /\ pc # "construct" => m_threadCount' = m_threadCount
       /\ (pc = "call" /\ pc' = "returned") => all_files = <<>>]_vars

\* what stays true of the worker count under assignment: it is at least 1
\* before and after every step, since every constructor makes it so, and
\* parallelSearch takes its early return only for an empty file list
WorkerCountStaysPositive ==
    [][/\ m_threadCount >= 1
       /\ m_threadCount' >= 1
       /\ (pc = "call" /\ pc' = "returned") => all_files = <<>>]_vars

\* ---------------------------------------------------------------- C25
CeilDiv(a, b) == (a + b - 1) \div b

\* the places of std::cout where an idle-worker note begins
IdleNotes == {i \in 1..Len(cout) : cout[i] = IdleNote(0)[1]}

\* the four pieces of the note for the first index left without files
\* stand at place i of std::cout
NoteAt(i) ==
    /\ i + 3 <= Len(cout)
    /\ SubSeq(cout, i, i + 3) = IdleNote(Len(threads))

\* C25: every thread started has a non-empty range that ends within the
\* list, and the threads started are the worker indexes 0, 1, ... without a
\* gap; once the launch loop is over, their number is ceil(N / chunk_size),
\* which is at most N and at most the worker count; the idle-worker note is
\* begun at most once per call and, once the launch loop is over, stands
\* complete on std::cout exactly when fewer threads than workers were
\* started, naming the first index left without files.
C25_DispatchedWorkersHaveWork ==
    /\ \A t \in 1..Len(threads) :
          /\ threads[t].thread_index = t - 1
          /\ threads[t].start_idx = (t - 1) * chunk_size
          /\ threads[t].start_idx < threads[t].end_idx
          /\ threads[t].end_idx <= N
    /\ Cardinality(IdleNotes) <= 1
    /\ Dispatched =>
          /\ Len(threads) = CeilDiv(N, chunk_size)
          /\ Len(threads) <= Min(N, m_threadCount)
          /\ Cardinality(IdleNotes) = 1 <=> Len(threads) < m_threadCount
          /\ \A i \in IdleNotes : NoteAt(i)

\* three workers for two files: two threads were started, the third index
\* got the note, and the call returned
C25_Witness ==
    /\ N = 2
    /\ m_threadCount = 3
    /\ pc = "returned"
    /\ Len(threads) = 2
    /\ cout = IdleNote(2)

\* ---------------------------------------------------------------- C26
\* C26: under fair scheduling every call of parallelSearch returns in the
\* end: the workers finish their ranges, the joins complete and the merge
\* ends.
C26_ParallelSearchReturns == (pc = "call") ~> Returned

\* the calls whose pattern compiles, or that search without a regex: under
\* fair scheduling each of them returns, unless a thread cannot be created
ReturnsWhenPatternCompiles ==
    (pc = "call" /\ ~(m_regexSearch /\ ~RegexValid(query)))
        ~> (Returned \/ raised = ThreadError)

\* ---------------------------------------------------------------- C27
\* C27: a literal scan with the empty query of a file that could be opened
\* returns one Match for every line of the file, in line order, each with
\* its line number and its text, with and without case-insensitivity.
C27_EmptyQueryMatchesEveryLine ==
    (ScanReturned /\ ~m_regexSearch /\ query = <<>>) =>
        results = [k \in 1..NumLines(ScannedData) |->
                      Match(scan_path, k, LineText(k))]

\* a case-insensitive literal scan with the empty query has returned both
\* lines of a file whose second line is empty
C27_Witness ==
    /\ ScanReturned
    /\ ~m_regexSearch
    /\ m_ignoreCase
    /\ query = <<>>
    /\ ScannedData = <<"A", LF, LF>>
    /\ results = <<Match(scan_path, 1, <<"A">>), Match(scan_path, 2, <<>>)>>

\* ---------------------------------------------------------------- C28
\* the file ends with text that no terminator follows
UnterminatedTail(d) == d # <<>> /\ d[Len(d)] # LF

\* C28: when the scan of a file has returned, the number of lines it read
\* is the number of terminators in the file, plus one when the file ends
\* with text that no terminator follows; that last text has the next line
\* number and is matched when the query hits it; no Match has a line number
\* beyond the lines read, so a terminator at the end adds no empty line; an
\* empty file gives no line and no Match.
C28_LinesReadByTerminators ==
    ScanReturned =>
        LET terminators == Cardinality(LFs(ScannedData))
            last        == terminators + 1
        IN /\ lineNumber = IF UnterminatedTail(ScannedData)
                           THEN last ELSE terminators
           /\ \A j \in 1..Len(results) : results[j].line_number \in 1..lineNumber
           /\ (UnterminatedTail(ScannedData) /\ Covered /\ PatternHit(LineText(last))) =>
                 /\ results # <<>>
                 /\ results[Len(results)] = Match(scan_path, last, LineText(last))
           /\ ScannedData = <<>> => lineNumber = 0 /\ results = <<>>

\* a file of one terminated line and one line cut short by the end of the
\* file has been scanned: two lines were read and the second one matched
C28_Witness ==
    /\ ScanReturned
    /\ ScannedData = <<"A", LF, "a">>
    /\ query = <<"a">>
    /\ ~m_ignoreCase
    /\ lineNumber = 2
    /\ results = <<Match(scan_path, 2, <<"a">>)>>

====
